---- MODULE Spec2Model ----
(***************************************************************************)
(* Rank Score Calculator (src/app.js, src/updateExcel.js).                 *)
(*                                                                         *)
(* The integers the code reads with parseInt (ratings, K-factors, round    *)
(* counts) are integers here.  Every other Number of the code is an IEEE   *)
(* 754 binary64 value, held as sign, significand and exponent, and the     *)
(* arithmetic on them rounds as the code's does.  A string is a sequence   *)
(* of characters; a character is a one-character string, or the name of    *)
(* its code point ("U+00A0") where it cannot be written as one.            *)
(***************************************************************************)
EXTENDS Integers, Sequences, FiniteSets

VARIABLES
    groups,        \* app.js:7   imported groups, each [fileName, sheetBase, players]
    roundCount,    \* app.js:9
    fullMark,      \* app.js:10
    sheets,        \* rows of the sheets appended to the workbook by the last calculate()
    updateLines,   \* update-feed lines of the last calculate()
    locals,        \* per sheet, per player: the locals total, empty, divisor and
                   \* change of calculateGroup
    alertMsg,      \* text of the last alert() since the last calculate() began
                   \* ("" when none)
    scoreCall,     \* the last direct call of getExpectedScore: arguments and result
    tokenCall,     \* the last direct call of parseOpponentToken: argument and result
    sheetNames,    \* names of the sheets appended to the workbook by the last calculate()
    imports,       \* the runs of the import handler: files, state of each read, settled
    resetRankImportUI, \* app.js:179  whether index.html defines window.resetRankImportUI
    calculated,    \* the groups the last calculate() read
    rowsCall,      \* the last direct call of parsePlayersFromText: argument and result
    groupCall,     \* the last direct call of calculateGroup: argument, rows and locals
    namesCall,     \* the calls of makeUniqueSheetName on one set: file names and results
    rankUpdate     \* updateExcel.js:1-101  the run of processRankUpdate: its files,
                   \* its sheet array and header, the two lists shown and the
                   \* sheet written

vars == <<groups, roundCount, fullMark, sheets, updateLines, locals, alertMsg,
          scoreCall, tokenCall, sheetNames, imports, resetRankImportUI, calculated,
          rowsCall, groupCall, namesCall, rankUpdate>>

----------------------------------------------------------------------------
(* Bounds of the checked input space.                                      *)

MaxPlayers == 3
MaxRounds == 2
MaxTokenLen == 3
MaxDiff == 740

\* values the "markPerRound" input takes in the checked runs
MarkChoices == {1, 2, 3}

----------------------------------------------------------------------------
(* Small helpers.                                                          *)

Abs(x) == IF x < 0 THEN -x ELSE x

\* Math.ceil(a / b) for b > 0
MathCeilDiv(a, b) == -((-a) \div b)

----------------------------------------------------------------------------
(* Natural numbers of any size.  A number is the sequence of its digits in *)
(* base 2^15, the least significant first and the last one not zero; <<>>  *)
(* is 0.  They carry the 53-bit significands of the Numbers of the code.   *)

LimbBits == 15

LimbBase == 32768

\* 2^0 .. 2^15
PowersOfTwo ==
    <<1, 2, 4, 8, 16, 32, 64, 128, 256, 512, 1024, 2048, 4096, 8192, 16384, 32768>>

Pow2(r) == PowersOfTwo[r + 1]

Max(a, b) == IF a >= b THEN a ELSE b

Min(a, b) == IF a <= b THEN a ELSE b

Zeros(n) == [i \in 1..n |-> 0]

RECURSIVE NatOf(_)
NatOf(n) == IF n = 0 THEN <<>> ELSE <<n % LimbBase>> \o NatOf(n \div LimbBase)

\* the value of a number below 2^30
RECURSIVE IntOfNat(_)
IntOfNat(a) == IF a = <<>> THEN 0 ELSE a[1] + LimbBase * IntOfNat(Tail(a))

RECURSIVE Trimmed(_)
Trimmed(a) ==
    IF a = <<>> THEN <<>>
    ELSE IF a[Len(a)] = 0 THEN Trimmed(SubSeq(a, 1, Len(a) - 1))
    ELSE a

BitLenLimb(d) == CHOOSE b \in 1..LimbBits : Pow2(b - 1) <= d /\ d < Pow2(b)

\* the number of bits of a: 2^(BitLen(a) - 1) <= a < 2^BitLen(a)
BitLen(a) ==
    IF a = <<>> THEN 0 ELSE LimbBits * (Len(a) - 1) + BitLenLimb(a[Len(a)])

IsOdd(a) == a # <<>> /\ a[1] % 2 = 1

RECURSIVE AddCarry(_, _, _)
AddCarry(a, b, c) ==
    IF a = <<>> /\ b = <<>> THEN (IF c = 0 THEN <<>> ELSE <<c>>)
    ELSE LET x == IF a = <<>> THEN 0 ELSE a[1]
             y == IF b = <<>> THEN 0 ELSE b[1]
             s == x + y + c
         IN  <<s % LimbBase>>
             \o AddCarry(IF a = <<>> THEN <<>> ELSE Tail(a),
                         IF b = <<>> THEN <<>> ELSE Tail(b), s \div LimbBase)

AddN(a, b) == AddCarry(a, b, 0)

\* a - b - c for a >= b + c, digit by digit
RECURSIVE SubBorrow(_, _, _)
SubBorrow(a, b, c) ==
    IF a = <<>> THEN <<>>
    ELSE LET y == IF b = <<>> THEN 0 ELSE b[1]
             d == a[1] - y - c
         IN  <<(d + LimbBase) % LimbBase>>
             \o SubBorrow(Tail(a), IF b = <<>> THEN <<>> ELSE Tail(b),
                          IF d < 0 THEN 1 ELSE 0)

SubN(a, b) == Trimmed(SubBorrow(a, b, 0))

\* -1, 0 or 1 as a < b, a = b or a > b, from the digit i down
RECURSIVE CmpFrom(_, _, _)
CmpFrom(a, b, i) ==
    IF i = 0 THEN 0
    ELSE IF a[i] < b[i] THEN -1
    ELSE IF a[i] > b[i] THEN 1
    ELSE CmpFrom(a, b, i - 1)

CmpN(a, b) ==
    IF Len(a) < Len(b) THEN -1
    ELSE IF Len(a) > Len(b) THEN 1
    ELSE CmpFrom(a, b, Len(a))

\* a * d + c for a digit d <= 2^15
RECURSIVE MulCarry(_, _, _)
MulCarry(a, d, c) ==
    IF a = <<>> THEN NatOf(c)
    ELSE LET p == a[1] * d + c
         IN  <<p % LimbBase>> \o MulCarry(Tail(a), d, p \div LimbBase)

MulSmall(a, d) == IF d = 0 THEN <<>> ELSE MulCarry(a, d, 0)

RECURSIVE MulN(_, _)
MulN(a, b) ==
    IF a = <<>> \/ b = <<>> THEN <<>>
    ELSE LET rest == MulN(a, Tail(b))
         IN  AddN(MulSmall(a, b[1]), IF rest = <<>> THEN <<>> ELSE <<0>> \o rest)

\* quotient and remainder of a by a digit d, 0 < d <= 2^15, from the digit i
\* down, given the quotient q and the remainder r of the digits above i; r is
\* below d throughout
RECURSIVE DivFrom(_, _, _, _, _)
DivFrom(a, d, i, r, q) ==
    IF i = 0 \/ r >= d THEN [q |-> q, r |-> r]
    ELSE DivFrom(a, d, i - 1, (r * LimbBase + a[i]) % d,
                 <<(r * LimbBase + a[i]) \div d>> \o q)

\* the quotient without its leading zeros
TrimmedQuotient(res) == [q |-> Trimmed(res.q), r |-> res.r]

DivSmall(a, d) == TrimmedQuotient(DivFrom(a, d, Len(a), 0, <<>>))

\* a * 2^k
ShiftLeft(a, k) ==
    IF a = <<>> THEN <<>>
    ELSE Zeros(k \div LimbBits) \o MulSmall(a, Pow2(k % LimbBits))

\* floor(a / 2^k), and whether a bit was lost
ShiftRight(a, k) ==
    LET whole == k \div LimbBits
        kept == IF whole >= Len(a) THEN <<>> ELSE SubSeq(a, whole + 1, Len(a))
        lost == \E i \in 1..Min(whole, Len(a)) : a[i] # 0
        res == DivSmall(kept, Pow2(k % LimbBits))
    IN  [q |-> res.q, sticky |-> lost \/ res.r # 0]

\* a * 10^n
RECURSIVE MulPow10(_, _)
MulPow10(a, n) ==
    IF n = 0 \/ a = <<>> THEN a
    ELSE IF n >= 4 THEN MulPow10(MulSmall(a, 10000), n - 4)
    ELSE MulPow10(MulSmall(a, 10), n - 1)

\* floor(a / 10^n), and whether the division left a remainder
RECURSIVE DivPow10(_, _, _)
DivPow10(a, n, sticky) ==
    IF n = 0 \/ a = <<>> THEN [q |-> a, sticky |-> sticky]
    ELSE LET d == IF n >= 4 THEN 10000 ELSE 10
             res == DivSmall(a, d)
         IN  IF sticky THEN DivPow10(res.q, IF n >= 4 THEN n - 4 ELSE n - 1, TRUE)
             ELSE DivPow10(res.q, IF n >= 4 THEN n - 4 ELSE n - 1, res.r # 0)

\* the character of a decimal digit
DigitOf(d) == <<"0", "1", "2", "3", "4", "5", "6", "7", "8", "9">>[d + 1]

\* the four decimal digits of a number below 10000
FourDigits(r) ==
    <<DigitOf(r \div 1000), DigitOf((r \div 100) % 10), DigitOf((r \div 10) % 10),
      DigitOf(r % 10)>>

\* the decimal digits of a number below 10000, no zero in front
FirstDigits(r) ==
    IF r >= 1000 THEN FourDigits(r)
    ELSE IF r >= 100 THEN SubSeq(FourDigits(r), 2, 4)
    ELSE IF r >= 10 THEN SubSeq(FourDigits(r), 3, 4)
    ELSE <<DigitOf(r)>>

\* the decimal digits of a, the most significant first ("0" for 0), four at a
\* time from the least significant
RECURSIVE DecimalDigitsOf(_)
DigitsOfQuotient(res) ==
    IF res.q = <<>> THEN FirstDigits(res.r)
    ELSE DecimalDigitsOf(res.q) \o FourDigits(res.r)

DecimalDigitsOf(a) == DigitsOfQuotient(DivSmall(a, 10000))

----------------------------------------------------------------------------
(* The Number type of the code: IEEE 754 binary64.  A Number is NaN, an    *)
(* infinity or (-1)^neg * m * 2^e with m below 2^53; m has 53 bits unless  *)
(* e = -1074 (a subnormal), and 0 is m = <<>> with e = 0.  -0 is held as   *)
(* 0: no cell of a row tells the two apart.                                *)

Precision == 53

MinExp == -1074

MaxExp == 1024

NaN == [kind |-> "nan", neg |-> FALSE, m |-> <<>>, e |-> 0]

Infinity(neg) == [kind |-> "inf", neg |-> neg, m |-> <<>>, e |-> 0]

Zero == [kind |-> "num", neg |-> FALSE, m |-> <<>>, e |-> 0]

\* m * 2^s for an integer s: the bits below the point are dropped when s < 0
Shifted(m, s) == IF s >= 0 THEN ShiftLeft(m, s) ELSE ShiftRight(m, -s).q

\* the Number (-1)^neg * m * 2^e with the significand shifted by s bits
ShiftedNumber(neg, m, e, s) ==
    [kind |-> "num", neg |-> neg, m |-> Shifted(m, s), e |-> e - s]

\* the Number (-1)^neg * m * 2^e of a significand m # 0 of len bits
NormalisedOfLength(neg, m, e, len) ==
    IF len + e > MaxExp THEN Infinity(neg)
    ELSE ShiftedNumber(neg, m, e,
                       IF len > Precision THEN Precision - len
                       ELSE Min(Precision - len, e - MinExp))

\* the Number of an exactly representable (-1)^neg * m * 2^e, e >= MinExp:
\* the significand brought to 53 bits
Normalised(neg, m, e) ==
    IF m = <<>> THEN Zero ELSE NormalisedOfLength(neg, m, e, BitLen(m))

\* q, or q + 1 when the bits dropped after q are more than a half, or a half
\* with q odd; guard is the first dropped bit, sticky tells of a later one
RoundedUp(q, guard, sticky) ==
    IF guard /\ (sticky \/ IsOdd(q)) THEN AddN(q, <<1>>) ELSE q

\* the half-way quotient high (a number with one more bit than the result and
\* whether a bit was lost below it) rounded to nearest, ties to even
RoundedHalf(high, sticky) ==
    RoundedUp(ShiftRight(high.q, 1).q, IsOdd(high.q), high.sticky \/ sticky)

\* (-1)^neg * (m + f) * 2^e with the last drop bits of m rounded away
RoundedAt(neg, m, e, sticky, drop) ==
    Normalised(neg,
               IF drop <= 0 THEN m ELSE RoundedHalf(ShiftRight(m, drop - 1), sticky),
               IF drop <= 0 THEN e ELSE e + drop)

\* the Number nearest to (-1)^neg * (m + f) * 2^e, ties to the even
\* significand, where 0 < f < 1 if sticky and f = 0 if not
RoundToNumber(neg, m, e, sticky) ==
    RoundedAt(neg, m, e, sticky, Max(BitLen(m) - Precision, MinExp - e))

\* the Number of an integer
NumberOf(n) == Normalised(n < 0, NatOf(IF n < 0 THEN -n ELSE n), 0)

IsFinite(x) == x.kind = "num"

IsZero(x) == x.kind = "num" /\ x.m = <<>>

\* (-1)^negA * a * 2^e + (-1)^negB * b * 2^e as a Number
AlignedSum(negA, a, negB, b, e) ==
    RoundToNumber(IF negA = negB \/ CmpN(a, b) >= 0 THEN negA ELSE negB,
                  IF negA = negB THEN AddN(a, b)
                  ELSE IF CmpN(a, b) >= 0 THEN SubN(a, b)
                  ELSE SubN(b, a),
                  e, FALSE)

\* x + y for finite x and y: the significands aligned at the lesser exponent
FiniteSum(x, y) ==
    AlignedSum(x.neg, ShiftLeft(x.m, x.e - Min(x.e, y.e)),
               y.neg, ShiftLeft(y.m, y.e - Min(x.e, y.e)), Min(x.e, y.e))

\* x + y
NumberAdd(x, y) ==
    IF x.kind = "nan" \/ y.kind = "nan" THEN NaN
    ELSE IF x.kind = "inf" /\ y.kind = "inf"
         THEN (IF x.neg = y.neg THEN x ELSE NaN)
    ELSE IF x.kind = "inf" THEN x
    ELSE IF y.kind = "inf" THEN y
    ELSE FiniteSum(x, y)

\* -x
NumberNeg(x) ==
    IF x.kind = "nan" \/ IsZero(x) THEN x ELSE [x EXCEPT !.neg = ~x.neg]

\* x - y
NumberSub(x, y) == NumberAdd(x, NumberNeg(y))

\* x * y
NumberMul(x, y) ==
    IF x.kind = "nan" \/ y.kind = "nan" THEN NaN
    ELSE IF x.kind = "inf" \/ y.kind = "inf"
         THEN (IF IsZero(x) \/ IsZero(y) THEN NaN ELSE Infinity(x.neg # y.neg))
    ELSE RoundToNumber(x.neg # y.neg, MulN(x.m, y.m), x.e + y.e, FALSE)

\* -1, 0 or 1 as x < y, x = y or x > y, for finite x and y
NumberCmp(x, y) ==
    LET d == NumberSub(x, y)
    IN  IF IsZero(d) THEN 0 ELSE IF d.neg THEN -1 ELSE 1

\* the bits to hold d * 2^k / 10^(-x) to more than 53 bits, for x < 0
GuardBits(d, x) == Max(0, Precision + 3 + 4 * (-x) - BitLen(d))

\* the Number nearest to (-1)^neg * res.q / 2^k, res telling whether the
\* quotient res.q left a remainder
RoundedQuotient(neg, res, k) == RoundToNumber(neg, res.q, -k, res.sticky)

\* the Number nearest to (-1)^neg * d * 10^x, as a decimal literal denotes it
DecimalToNumber(neg, d, x) ==
    IF d = <<>> THEN Zero
    ELSE RoundedQuotient(neg,
            IF x >= 0 THEN [q |-> MulPow10(d, x), sticky |-> FALSE]
            ELSE DivPow10(ShiftLeft(d, GuardBits(d, x)), -x, FALSE),
            IF x >= 0 THEN 0 ELSE GuardBits(d, x))

\* the integer a finite Number of integral value below 2^30 holds
IntOfNumber(x) ==
    LET n == IntOfNat(ShiftLeft(ShiftRight(x.m, Max(0, -x.e)).q, Max(0, x.e)))
    IN  IF x.neg THEN -n ELSE n

\* floor(a / 2^k) of a signed a: the quotient res rounded down
FloorOf(neg, res) ==
    Normalised(neg, IF neg /\ res.sticky THEN AddN(res.q, <<1>>) ELSE res.q, 0)

\* floor(((-1)^neg * m + half) / 2^k)
FloorOfHalves(neg, m, half, k) ==
    IF neg /\ CmpN(m, half) <= 0 THEN Zero
    ELSE FloorOf(neg, ShiftRight(IF neg THEN SubN(m, half) ELSE AddN(m, half), k))

\* Math.round(x): floor(x + 0.5)
MathRound(x) ==
    IF x.kind # "num" \/ x.e >= 0 THEN x
    ELSE FloorOfHalves(x.neg, x.m, ShiftLeft(<<1>>, -x.e - 1), -x.e)

\* the digits ds of a number of tenths written with the sign and a point
\* before the last digit, "0" standing before the point of a single digit
PointBeforeLast(neg, ds) ==
    (IF neg THEN <<"-">> ELSE <<>>)
    \o (IF Len(ds) = 1 THEN <<"0">> ELSE SubSeq(ds, 1, Len(ds) - 1))
    \o <<".">> \o <<ds[Len(ds)]>>

\* Number.prototype.toFixed(1) of a Number below 10^21 in magnitude: the
\* digits of the integer n with n / 10 nearest to |x|, the larger n at a tie,
\* a point before the last one
ToFixed1(x) ==
    IF x.kind = "nan" THEN <<"N", "a", "N">>
    ELSE IF x.kind = "inf"
         THEN (IF x.neg THEN <<"-">> ELSE <<>>)
              \o <<"I", "n", "f", "i", "n", "i", "t", "y">>
    ELSE PointBeforeLast(x.neg,
            DecimalDigitsOf(
                IF x.e >= 0 THEN ShiftLeft(MulSmall(x.m, 10), x.e)
                ELSE ShiftRight(AddN(MulSmall(x.m, 20), ShiftLeft(<<1>>, -x.e)),
                                1 - x.e).q))

----------------------------------------------------------------------------
(* parseOpponentToken, app.js:77-96.                                       *)

Digits == <<"0", "1", "2", "3", "4", "5", "6", "7", "8", "9">>

IsDigit(c) == \E i \in 1..10 : Digits[i] = c

DigitVal(c) == (CHOOSE i \in 1..10 : Digits[i] = c) - 1

\* WhiteSpace and LineTerminator of ECMAScript: what trim(), parseInt() and
\* parseFloat() skip
WhiteSpace ==
    {"\t", "\n", "U+000B", "\f", "\r", " ", "U+00A0", "U+1680", "U+2000", "U+2001",
     "U+2002", "U+2003", "U+2004", "U+2005", "U+2006", "U+2007", "U+2008",
     "U+2009", "U+200A", "U+2028", "U+2029", "U+202F", "U+205F", "U+3000",
     "U+FEFF"}

IsSpace(c) == c \in WhiteSpace

\* String.prototype.trim
RECURSIVE TrimLeft(_)
TrimLeft(s) ==
    IF Len(s) > 0 /\ IsSpace(Head(s)) THEN TrimLeft(Tail(s)) ELSE s

RECURSIVE TrimRight(_)
TrimRight(s) ==
    IF Len(s) > 0 /\ IsSpace(s[Len(s)]) THEN TrimRight(SubSeq(s, 1, Len(s) - 1)) ELSE s

Trim(s) == TrimRight(TrimLeft(s))

LowerCase ==
    <<"a", "b", "c", "d", "e", "f", "g", "h", "i", "j", "k", "l", "m",
      "n", "o", "p", "q", "r", "s", "t", "u", "v", "w", "x", "y", "z">>

UpperCase ==
    <<"A", "B", "C", "D", "E", "F", "G", "H", "I", "J", "K", "L", "M",
      "N", "O", "P", "Q", "R", "S", "T", "U", "V", "W", "X", "Y", "Z">>

\* String.prototype.toUpperCase on one character of ASCII or of WhiteSpace
ToUpperCase(c) ==
    IF \E i \in 1..26 : LowerCase[i] = c
    THEN UpperCase[CHOOSE i \in 1..26 : LowerCase[i] = c]
    ELSE c

\* the longest prefix of s made of decimal digits
RECURSIVE DigitPrefix(_)
DigitPrefix(s) ==
    IF Len(s) > 0 /\ IsDigit(Head(s)) THEN <<Head(s)>> \o DigitPrefix(Tail(s)) ELSE <<>>

RECURSIVE DigitsValue(_, _)
DigitsValue(s, acc) ==
    IF Len(s) = 0 THEN acc ELSE DigitsValue(Tail(s), acc * 10 + DigitVal(Head(s)))

\* the integer of the digits ds under a sign: NaN without a digit
IntegerOfDigits(neg, ds) ==
    IF Len(ds) = 0
    THEN [nan |-> TRUE, n |-> 0]
    ELSE [nan |-> FALSE, n |-> IF neg THEN -DigitsValue(ds, 0) ELSE DigitsValue(ds, 0)]

\* the integer at the head of t: an optional sign and the longest run of digits
SignedDigits(t) ==
    IntegerOfDigits(Len(t) > 0 /\ Head(t) = "-",
                    DigitPrefix(IF Len(t) > 0 /\ (Head(t) = "-" \/ Head(t) = "+")
                                THEN Tail(t) ELSE t))

\* parseInt(s, 10): leading white space skipped, an optional sign, then the longest
\* run of digits; NaN when that run is empty.
ParseInt(s) == SignedDigits(TrimLeft(s))

\* the digits of a decimal literal as a natural number
RECURSIVE NatOfDigits(_, _)
NatOfDigits(s, acc) ==
    IF Len(s) = 0 THEN acc
    ELSE NatOfDigits(Tail(s), AddN(MulSmall(acc, 10), NatOf(DigitVal(Head(s)))))

\* the decimal exponent beyond which a literal denotes an infinity or 0
\* whatever its digits
ExponentCap == 400

\* the value of the digits of an exponent, cut off beyond ExponentCap
RECURSIVE ExponentValue(_, _)
ExponentValue(s, acc) ==
    IF Len(s) = 0 \/ acc > ExponentCap * 10 THEN acc
    ELSE ExponentValue(Tail(s), acc * 10 + DigitVal(Head(s)))

IsSign(c) == c = "-" \/ c = "+"

InfinityText == <<"I", "n", "f", "i", "n", "i", "t", "y">>

StartsWith(s, prefix) ==
    Len(s) >= Len(prefix) /\ SubSeq(s, 1, Len(prefix)) = prefix

\* the digits s starts with, and what follows them
IntegerPart(s) ==
    [digits |-> DigitPrefix(s),
     rest |-> SubSeq(s, Len(DigitPrefix(s)) + 1, Len(s))]

\* the point and the digits after it that s starts with: the length of the
\* part (0 without a point), its digits and what follows it
FractionPart(s) ==
    IF Len(s) > 0 /\ Head(s) = "."
    THEN [len |-> 1 + Len(DigitPrefix(Tail(s))),
          digits |-> DigitPrefix(Tail(s)),
          rest |-> SubSeq(s, Len(DigitPrefix(Tail(s))) + 2, Len(s))]
    ELSE [len |-> 0, digits |-> <<>>, rest |-> s]

\* the exponent s holds after the letter e: with its sign and at least one
\* digit, or none
ExponentAfterE(s) ==
    LET signed == Len(s) > 0 /\ IsSign(Head(s))
        digits == DigitPrefix(IF signed THEN Tail(s) ELSE s)
        mag == ExponentValue(digits, 0)
    IN  IF Len(digits) = 0 THEN [len |-> 0, value |-> 0]
        ELSE [len |-> 1 + (IF signed THEN 1 ELSE 0) + Len(digits),
              value |-> IF Head(s) = "-" THEN -mag ELSE mag]

\* the exponent part that s starts with: its length (0 when there is none)
\* and its value
ExponentPart(s) ==
    IF Len(s) > 0 /\ (Head(s) = "e" \/ Head(s) = "E") THEN ExponentAfterE(Tail(s))
    ELSE [len |-> 0, value |-> 0]

\* the Number of the count digits whose value is d, times 10^x
DecimalValue(neg, d, x, count) ==
    IF d = <<>> THEN Zero
    ELSE IF x > ExponentCap THEN Infinity(neg)
    ELSE IF x + count < -ExponentCap THEN Zero
    ELSE DecimalToNumber(neg, d, x)

\* the literal made of an integer part, a fraction part and an exponent part
LiteralOfParts(neg, sign, int, frac, exp) ==
    IF Len(int.digits) = 0 /\ Len(frac.digits) = 0 THEN [len |-> 0, value |-> NaN]
    ELSE [len |-> sign + Len(int.digits) + frac.len + exp.len,
          value |-> DecimalValue(neg, NatOfDigits(int.digits \o frac.digits, <<>>),
                                 exp.value - Len(frac.digits),
                                 Len(int.digits) + Len(frac.digits))]

\* the literal at the head of body, what follows a sign of sign characters
UnsignedLiteral(neg, sign, body) ==
    IF StartsWith(body, InfinityText)
    THEN [len |-> sign + Len(InfinityText), value |-> Infinity(neg)]
    ELSE LiteralOfParts(neg, sign, IntegerPart(body),
                        FractionPart(IntegerPart(body).rest),
                        ExponentPart(FractionPart(IntegerPart(body).rest).rest))

\* the longest prefix of t that is a StrDecimalLiteral: its length (0 when
\* there is none) and the Number it denotes
DecimalLiteral(t) ==
    UnsignedLiteral(Len(t) > 0 /\ Head(t) = "-",
                    IF Len(t) > 0 /\ IsSign(Head(t)) THEN 1 ELSE 0,
                    IF Len(t) > 0 /\ IsSign(Head(t)) THEN Tail(t) ELSE t)

\* parseFloat(s): leading white space skipped, then the longest decimal
\* literal; NaN when there is none
ParseFloat(s) == DecimalLiteral(TrimLeft(s)).value

\* the Number of the trimmed string t whose longest literal is lit
WholeLiteral(t, lit) ==
    IF Len(t) = 0 THEN Zero ELSE IF lit.len = Len(t) THEN lit.value ELSE NaN

\* Number(s) for a string s: 0 for white space alone, the Number of a decimal
\* literal that is all of the trimmed string, NaN for any other of the
\* strings toFixed returns
StringToNumber(s) == WholeLiteral(Trim(s), DecimalLiteral(Trim(s)))

\* an opponentId: null, or an integer
NullId == [null |-> TRUE, n |-> 0]
IdOf(n) == [null |-> FALSE, n |-> n]

\* a token argument: undefined/null (missing), or a string
MissingToken == [missing |-> TRUE, chars |-> <<>>]
TokenOf(s) == [missing |-> FALSE, chars |-> s]

IsMarker(c) == c = "W" \/ c = "D" \/ c = "L"

\* a slip of app.js:87: the marker compared without toUpperCase
MaybeNumberCaseSensitive(raw) ==
    IF IsMarker(raw[1]) THEN Tail(raw) ELSE raw

\* a slip of app.js:89: the marker left in the text
MaybeNumberUnstripped(raw) == raw

\* app.js:87-89  the text handed to parseInt
MaybeNumber(raw) ==
    IF IsMarker(ToUpperCase(raw[1])) THEN Tail(raw) ELSE raw

parseOpponentToken(token) ==
    IF token.missing
    THEN [opponentId |-> NullId, display |-> <<>>]
    ELSE LET raw == Trim(token.chars) IN
         IF Len(raw) = 0
         THEN [opponentId |-> NullId, display |-> <<>>]
         ELSE LET opponentId == ParseInt(MaybeNumber(raw)) IN
              [opponentId |-> IF opponentId.nan THEN NullId ELSE IdOf(opponentId.n),
               display |-> raw]

----------------------------------------------------------------------------
(* getExpectedScore, app.js:545-606 (updateExcel.js:454-515 holds the same  *)
(* table).  A row of BandRows is <<min, max, hi, lo>> for the source line  *)
(* [min, max, diff >= 0 ? hi : lo]; the first line, [0, 3, 0.5], has       *)
(* hi = lo.  The literals hi and lo are written in hundredths: 51 stands   *)
(* for the literal 0.51, whose Number is LiteralOf(51).                    *)

BandRows == <<
    <<0, 3, 50, 50>>,
    <<4, 10, 51, 49>>,
    <<11, 17, 52, 48>>,
    <<18, 25, 53, 47>>,
    <<26, 32, 54, 46>>,
    <<33, 39, 55, 45>>,
    <<40, 46, 56, 44>>,
    <<47, 53, 57, 43>>,
    <<54, 61, 58, 42>>,
    <<62, 68, 59, 41>>,
    <<69, 76, 60, 40>>,
    <<77, 83, 61, 39>>,
    <<84, 91, 62, 38>>,
    <<92, 98, 63, 37>>,
    <<99, 106, 64, 36>>,
    <<107, 113, 65, 35>>,
    <<114, 121, 66, 34>>,
    <<122, 129, 67, 33>>,
    <<130, 137, 68, 32>>,
    <<138, 145, 69, 31>>,
    <<146, 153, 70, 30>>,
    <<154, 162, 71, 29>>,
    <<163, 170, 72, 28>>,
    <<171, 179, 73, 27>>,
    <<180, 188, 74, 26>>,
    <<189, 197, 75, 25>>,
    <<198, 206, 76, 24>>,
    <<207, 215, 77, 23>>,
    <<216, 225, 78, 22>>,
    <<226, 235, 79, 21>>,
    <<236, 245, 80, 20>>,
    <<246, 256, 81, 19>>,
    <<257, 267, 82, 18>>,
    <<268, 278, 83, 17>>,
    <<279, 290, 84, 16>>,
    <<291, 302, 85, 15>>,
    <<303, 315, 86, 14>>,
    <<316, 328, 87, 13>>,
    <<329, 344, 88, 12>>,
    <<345, 357, 89, 11>>,
    <<358, 374, 90, 10>>,
    <<375, 391, 91, 9>>,
    <<392, 411, 92, 8>>,
    <<412, 432, 93, 7>>,
    <<433, 456, 94, 6>>,
    <<457, 484, 95, 5>>,
    <<485, 517, 96, 4>>,
    <<518, 559, 97, 3>>,
    <<560, 619, 98, 2>>,
    <<620, 734, 99, 1>>
  >>

\* a slip of app.js:550-598: the sign of diff ignored
breakpointsNoSign(diff) ==
    [i \in 1..Len(BandRows) |-> <<BandRows[i][1], BandRows[i][2], BandRows[i][3]>>]

\* a slip of app.js:549: the first band written like the others
breakpointsNoDeadBand(diff) ==
    [i \in 1..Len(BandRows) |->
        <<BandRows[i][1], BandRows[i][2],
          IF i = 1 THEN (IF diff >= 0 THEN 51 ELSE 49)
          ELSE IF diff >= 0 THEN BandRows[i][3] ELSE BandRows[i][4]>>]

\* a slip of app.js:598: the last line of the table left out
breakpointsShort(diff) ==
    [i \in 1..(Len(BandRows) - 1) |->
        <<BandRows[i][1], BandRows[i][2],
          IF diff >= 0 THEN BandRows[i][3] ELSE BandRows[i][4]>>]

\* a slip of app.js:550: the two fractions of the band 4..10 exchanged
breakpointsSwappedBand(diff) ==
    [i \in 1..Len(BandRows) |->
        <<BandRows[i][1], BandRows[i][2],
          IF (diff >= 0) = (i # 2) THEN BandRows[i][3] ELSE BandRows[i][4]>>]

\* app.js:548-599  the array when diff >= 0 holds
BreakpointsNotBelow ==
    [i \in 1..Len(BandRows) |-> <<BandRows[i][1], BandRows[i][2], BandRows[i][3]>>]

\* app.js:548-599  the array when diff >= 0 fails
BreakpointsBelow ==
    [i \in 1..Len(BandRows) |-> <<BandRows[i][1], BandRows[i][2], BandRows[i][4]>>]

\* app.js:548-599  the array built by a call whose difference is diff
breakpoints(diff) == IF diff >= 0 THEN BreakpointsNotBelow ELSE BreakpointsBelow

\* a slip of app.js:602: the lower edge of a band excluded
BandMatchesStrict(band, absDiff) == absDiff > band[1] /\ absDiff <= band[2]

\* app.js:602  the test of one band
BandMatches(band, absDiff) == absDiff >= band[1] /\ absDiff <= band[2]

\* app.js:601-603  index of the first band that matches, 0 when the loop falls through
RECURSIVE FirstBand(_, _, _)
FirstBand(table, absDiff, i) ==
    IF i > Len(table) THEN 0
    ELSE IF BandMatches(table[i], absDiff) THEN i
    ELSE FirstBand(table, absDiff, i + 1)

\* what getExpectedScore returns: a Number, or the String of toFixed
NumberValue(x) == [type |-> "number", num |-> x, str |-> <<>>]

StringValue(str) == [type |-> "string", num |-> Zero, str |-> str]

\* Number(v)
ToNumber(v) == IF v.type = "number" THEN v.num ELSE StringToNumber(v.str)

\* the Numbers of the literals 0.00, 0.01, ... 1.00
Literals == [pct \in 0..100 |-> DecimalToNumber(FALSE, NatOf(pct), -2)]

\* the Number a literal of the table denotes: 0.51 for 51 hundredths
LiteralOf(pct) == Literals[pct]

\* a slip of app.js:605: fullMark returned whatever the sign of diff
OutOfRangeUnsigned(diff, fm) == StringValue(ToFixed1(NumberOf(fm)))

\* a slip of app.js:605: the two outcomes of the sign test exchanged
OutOfRangeSwapped(diff, fm) ==
    IF diff >= 0 THEN NumberValue(Zero) ELSE StringValue(ToFixed1(NumberOf(fm)))

\* app.js:605  diff >= 0 ? Number(fullMark).toFixed(1) : 0
OutOfRange(diff, fm) ==
    IF diff >= 0 THEN StringValue(ToFixed1(NumberOf(fm))) ELSE NumberValue(Zero)

\* app.js:601-605  the loop and the fall-through, on the array built at 548-599:
\* fullMark * val for the first band that matches
ScoreOfTable(table, diff, absDiff, fm) ==
    LET band == FirstBand(table, absDiff, 1)
    IN  IF band > 0
        THEN NumberValue(NumberMul(NumberOf(fm), LiteralOf(table[band][3])))
        ELSE OutOfRange(diff, fm)

\* app.js:545-606, with the global fullMark passed as fm
getExpectedScore(pMark, oMark, fm) ==
    ScoreOfTable(breakpoints(pMark - oMark), pMark - oMark, Abs(pMark - oMark), fm)

----------------------------------------------------------------------------
(* calculateGroup, app.js:185-227 (updateExcel.js:297-338).                *)
(* A player is a row of parsePlayersFromText: the sequence of its cells,   *)
(* player[j] of the code being the cell j + 1 here.  A row the code builds *)
(* is a record of its cells; rank, k and avgOpponent are integers, score   *)
(* and finalRank are Numbers, expected and change the Strings of toFixed.  *)

\* player[j]: undefined past the end of the row
CellAt(player, j) ==
    IF j + 1 <= Len(player) THEN TokenOf(player[j + 1]) ELSE MissingToken

\* app.js:198  player[3 + i]
TokenAt(player, i) == CellAt(player, 3 + i)

\* app.js:189, 202  parseInt(player[1], 10), an integer in every row that
\* isValidPlayerRow lets through
RankOf(player) == ParseInt(player[2]).n

\* app.js:190  parseInt(player[2], 10), an integer in every such row
KOf(player) == ParseInt(player[3]).n

\* parseFloat of a cell: NaN for undefined
ParseFloatOf(cell) == IF cell.missing THEN NaN ELSE ParseFloat(cell.chars)

\* app.js:191  parseFloat(player[3 + roundCount])
ScoreOf(player, rc) == ParseFloatOf(CellAt(player, 3 + rc))

\* app.js:199  opponentId ? opponentId - 1 : -1   (null and 0 are falsy)
OpponentIndex(opponentId) ==
    IF opponentId.null \/ opponentId.n = 0 THEN -1 ELSE opponentId.n - 1

\* a slip of app.js:201: the first player is never resolved
ResolvesOffByOne(players, opponentIndex) ==
    opponentIndex > 0 /\ opponentIndex < Len(players)

\* app.js:201  opponentIndex >= 0 && players[opponentIndex]
Resolves(players, opponentIndex) ==
    opponentIndex >= 0 /\ opponentIndex < Len(players)

\* app.js:201-205  one round: the rating of the opponent added to total, or
\* one more empty round
OpponentRound(players, acc, opponentIndex) ==
    IF Resolves(players, opponentIndex)
    THEN [acc EXCEPT !.total = @ + RankOf(players[opponentIndex + 1])]
    ELSE [acc EXCEPT !.empty = @ + 1]

\* app.js:197-206  the loop over the rounds, from round i on
RECURSIVE OpponentLoop(_, _, _, _, _)
OpponentLoop(players, player, rc, i, acc) ==
    IF i >= rc THEN acc
    ELSE OpponentLoop(players, player, rc, i + 1,
            OpponentRound(players, acc,
                OpponentIndex(parseOpponentToken(TokenAt(player, i)).opponentId)))

\* app.js:208  divisor, beside the total and empty the loop leaves
WithDivisor(acc, rc) ==
    [total |-> acc.total, empty |-> acc.empty, divisor |-> rc - acc.empty]

\* app.js:194-208  total, empty and divisor of one player
OpponentTotals(players, player, rc) ==
    WithDivisor(OpponentLoop(players, player, rc, 0, [total |-> 0, empty |-> 0]), rc)

\* a slip of app.js:209: Math.floor for Math.ceil
AvgOpponentFloor(t) ==
    IF t.divisor > 0 THEN t.total \div t.divisor ELSE 0

\* app.js:209
AvgOpponent(t) ==
    IF t.divisor > 0 THEN MathCeilDiv(t.total, t.divisor) ELSE 0

\* app.js:210  Number(getExpectedScore(rank, avgOpponent)).toFixed(1)
Expected(rank, avgOpponent, fm) ==
    ToFixed1(ToNumber(getExpectedScore(rank, avgOpponent, fm)))

\* a slip of app.js:211: the operands of the subtraction exchanged
ChangeSwapped(score, expected, k) ==
    NumberMul(NumberSub(ParseFloat(expected), score), NumberOf(k))

\* a slip of app.js:211: the expected score added to the total score
ChangeAdded(score, expected, k) ==
    NumberMul(NumberAdd(score, ParseFloat(expected)), NumberOf(k))

\* app.js:211  (score - parseFloat(expected)) * k
Change(score, expected, k) ==
    NumberMul(NumberSub(score, ParseFloat(expected)), NumberOf(k))

\* a slip of app.js:212: Math.floor in the place of Math.round
FinalRankFloor(rank, change) ==
    LET sum == NumberAdd(NumberOf(rank), change) IN
    IF sum.kind # "num" \/ sum.e >= 0 THEN sum
    ELSE FloorOf(sum.neg, ShiftRight(sum.m, -sum.e))

\* app.js:212  Math.round(rank + change)
FinalRank(rank, change) == MathRound(NumberAdd(NumberOf(rank), change))

\* app.js:214-226  the row returned for a player, whose locals are the
\* parameters, together with the locals total, empty, divisor and change
RowOfChange(index, name, rank, k, rounds, score, totals, avgOpponent, expected, change) ==
    [row |-> [seq |-> index,
              name |-> name,
              rank |-> rank,
              k |-> k,
              rounds |-> rounds,
              score |-> score,
              avgOpponent |-> avgOpponent,
              expected |-> expected,
              change |-> ToFixed1(change),
              finalRank |-> FinalRank(rank, change)],
     totals |-> [total |-> totals.total, empty |-> totals.empty,
                 divisor |-> totals.divisor, change |-> change]]

\* app.js:211
RowOfExpected(index, name, rank, k, rounds, score, totals, avgOpponent, expected) ==
    RowOfChange(index, name, rank, k, rounds, score, totals, avgOpponent, expected,
                Change(score, expected, k))

\* app.js:210
RowOfAverage(index, name, rank, k, rounds, score, fm, totals, avgOpponent) ==
    RowOfExpected(index, name, rank, k, rounds, score, totals, avgOpponent,
                  Expected(rank, avgOpponent, fm))

\* app.js:188-226  the row of one player together with the locals of its loop
RowOfTotals(player, index, rc, fm, totals) ==
    RowOfAverage(index, player[1], RankOf(player), KOf(player),
                 SubSeq(player, 4, Min(3 + rc, Len(player))), ScoreOf(player, rc),
                 fm, totals, AvgOpponent(totals))

\* a slip of app.js:187: the rows built from the players in reverse order
PlayerPassReversed(players, index, rc, fm) ==
    RowOfTotals(players[Len(players) + 1 - index], index, rc, fm,
                OpponentTotals(players, players[Len(players) + 1 - index], rc))

\* app.js:187-227  one pass of the map callback, for players[index]
\* (index is 1-based here)
PlayerPass(players, index, rc, fm) ==
    RowOfTotals(players[index], index, rc, fm,
                OpponentTotals(players, players[index], rc))

\* app.js:187  players.map(...): the passes from players[index] on, in order
RECURSIVE PlayerPasses(_, _, _, _)
PlayerPasses(players, index, rc, fm) ==
    IF index > Len(players) THEN <<>>
    ELSE <<PlayerPass(players, index, rc, fm)>>
         \o PlayerPasses(players, index + 1, rc, fm)

\* app.js:187-227  the row built for players[index]
PlayerRow(players, index, rc, fm) == PlayerPass(players, index, rc, fm).row

\* app.js:187  players.map(...)
calculateGroup(players, rc, fm) ==
    [index \in 1..Len(players) |-> PlayerRow(players, index, rc, fm)]

\* a slip of app.js:305-306: the old rating written in place of the new one
groupUpdateLinesOldOnly(updatedPlayers) ==
    [i \in 1..Len(updatedPlayers) |->
        <<updatedPlayers[i].name, updatedPlayers[i].rank,
          NumberOf(updatedPlayers[i].rank)>>]

\* app.js:303-308  a line `${name},${oldRank},${newRank}` is held as its three
\* values: the name, the integer row[2] and the Number row[row.length - 1]
groupUpdateLines(updatedPlayers) ==
    [i \in 1..Len(updatedPlayers) |->
        <<updatedPlayers[i].name, updatedPlayers[i].rank,
          updatedPlayers[i].finalRank>>]

----------------------------------------------------------------------------
(* Sheet names, app.js:27-55.  A name is a sequence of characters.         *)

\* the longest sheet name Excel accepts (app.js:33, 37, 47)
SheetNameLimit == 31

\* String.prototype.slice(0, n) for n >= 0
Slice(s, n) == SubSeq(s, 1, Min(n, Len(s)))

\* index of the last "." among s[1..i], 0 when there is none
RECURSIVE LastDot(_, _)
LastDot(s, i) ==
    IF i = 0 THEN 0 ELSE IF s[i] = "." THEN i ELSE LastDot(s, i - 1)

\* app.js:30  .replace(/\.[^/.]+$/, ""): the text from a "." to the end is
\* removed when what follows the "." is not empty and holds no "/" and no "."
RemoveExtension(s) ==
    IF LastDot(s, Len(s)) > 0 /\ LastDot(s, Len(s)) < Len(s)
         /\ \A j \in (LastDot(s, Len(s)) + 1)..Len(s) : s[j] # "/"
    THEN SubSeq(s, 1, LastDot(s, Len(s)) - 1)
    ELSE s

\* app.js:31  the characters of the class [:\\/?*\[\]]
ForbiddenChars == {":", "\\", "/", "?", "*", "[", "]"}

\* app.js:31  .replace(/[:\\/?*\[\]]/g, "_")
ReplaceForbidden(s) ==
    [i \in 1..Len(s) |-> IF s[i] \in ForbiddenChars THEN "_" ELSE s[i]]

\* app.js:33  the name used when nothing is left
GroupName == <<"G", "r", "o", "u", "p">>

\* app.js:33  (cleaned || "Group").slice(0, 31)
CleanedOrGroup(cleaned) ==
    Slice(IF Len(cleaned) = 0 THEN GroupName ELSE cleaned, SheetNameLimit)

sanitizeSheetName(name) ==
    CleanedOrGroup(Trim(ReplaceForbidden(RemoveExtension(name))))

\* the decimal digits of a natural number, as in a template literal
RECURSIVE ToString(_)
ToString(n) ==
    IF n < 10 THEN <<Digits[n + 1]>> ELSE ToString(n \div 10) \o <<Digits[(n % 10) + 1]>>

\* app.js:46  `_${i}`
Suffix(i) == <<"_">> \o ToString(i)

\* a slip of app.js:47: the base not shortened to leave room for the suffix
CandidateUntrimmed(baseName, i) == baseName \o Suffix(i)

\* app.js:47-48  the candidate tried for i
Candidate(baseName, i) ==
    Slice(baseName, Max(0, SheetNameLimit - Len(Suffix(i)))) \o Suffix(i)

\* a slip of app.js:45-54: the first candidate returned without the test of the set
CandidateLoopOnce(baseName, existing, i) == Candidate(baseName, i)

\* app.js:45-54  the loop, from i on
RECURSIVE CandidateLoop(_, _, _)
CandidateLoop(baseName, existing, i) ==
    IF Candidate(baseName, i) \notin existing
    THEN Candidate(baseName, i)
    ELSE CandidateLoop(baseName, existing, i + 1)

\* app.js:36-55  the name returned; the caller's set becomes existing \cup {name}
makeUniqueSheetName(baseName, existing) ==
    IF Slice(baseName, SheetNameLimit) \notin existing
    THEN Slice(baseName, SheetNameLimit)
    ELSE CandidateLoop(baseName, existing, 2)

----------------------------------------------------------------------------
(* Reading the rows of a file, app.js:57-75.  A text is a sequence of       *)
(* characters, a row a sequence of cells, a cell a sequence of characters.  *)

\* String.prototype.split(sep) for a one-character separator, from s[i] on,
\* cur being the piece read so far
RECURSIVE SplitFrom(_, _, _, _)
SplitFrom(s, sep, i, cur) ==
    IF i > Len(s) THEN <<cur>>
    ELSE IF s[i] = sep THEN <<cur>> \o SplitFrom(s, sep, i + 1, <<>>)
    ELSE SplitFrom(s, sep, i + 1, Append(cur, s[i]))

Split(s, sep) == SplitFrom(s, sep, 1, <<>>)

\* app.js:67  .replace(/\r/g, "")
RemoveCR(s) == SelectSeq(s, LAMBDA c : c # "\r")

\* app.js:57-63
isValidPlayerRow(row) ==
    /\ Len(row) >= 4
    /\ ~ParseInt(row[2]).nan
    /\ ~ParseInt(row[3]).nan

\* .map((x) => x.trim())
TrimAll(pieces) == [i \in 1..Len(pieces) |-> Trim(pieces[i])]

\* app.js:66-70  the trimmed, non-empty lines of the text
Lines(text) ==
    SelectSeq(TrimAll(Split(RemoveCR(text), "\n")), LAMBDA l : Len(l) > 0)

\* app.js:73  line.split(",").map((x) => x.trim())
Cells(line) == TrimAll(Split(line, ","))

\* app.js:72-74  the rows of the lines, filtered
RowsOfLines(lines) ==
    SelectSeq([i \in 1..Len(lines) |-> Cells(lines[i])], isValidPlayerRow)

\* app.js:65-75
parsePlayersFromText(text) == RowsOfLines(Lines(text))

\* app.js:107-115  the group built from a file and its text
GroupOfFile(file) ==
    [fileName |-> file.name,
     sheetBase |-> sanitizeSheetName(file.name),
     players |-> parsePlayersFromText(file.text)]

\* app.js:107  texts.map(...)
GroupsOfFiles(files) == [i \in 1..Len(files) |-> GroupOfFile(files[i])]

----------------------------------------------------------------------------
(* The player lists of the checked calls of calculateGroup: 1..MaxPlayers  *)
(* rows of 1..MaxRounds round cells followed by the total score.  The      *)
(* ratings of a list rise by a fixed step from row to row; one row (the    *)
(* focus) carries any token of TokenPool in the first round and a token of *)
(* LaterTokens in every later one, the other rows play the first row in    *)
(* every round.                                                            *)

NameOf(i) == <<<<"A">>, <<"B">>, <<"C">>, <<"D">>, <<"E">>>>[i]

\* <<rating of the first row, step to the next row>>
RatingProfiles == {<<1500, 3>>, <<760, 740>>, <<0, 100>>}

KFactors == {15, 16, 20}

\* the cells of the total scores
Scores == {<<"0", ".", "5">>, <<"2", ".", "5">>}

TokenPool == {<<"W", "3">>, <<"d", "2">>, <<"0">>, <<>>, <<"-", "1">>}

FillToken == <<"1">>

LaterTokens == {<<"W", "3">>, <<>>}

TokenRows(rc) == { toks \in [1..rc -> TokenPool] : \A j \in 2..rc : toks[j] \in LaterTokens }

MkPlayers(n, rc, focus, prof, k, score, toks) ==
    [i \in 1..n |->
        <<NameOf(i), ToString(prof[1] + (i - 1) * prof[2]), ToString(k)>>
        \o (IF i = ((focus - 1) % n) + 1 THEN toks ELSE [j \in 1..rc |-> FillToken])
        \o <<score>>]

PlayerLists(rc) ==
    { MkPlayers(n, rc, focus, prof, k, score, toks) :
        n \in 1..MaxPlayers, focus \in 1..MaxPlayers, prof \in RatingProfiles,
        k \in KFactors, score \in Scores, toks \in TokenRows(rc) }

----------------------------------------------------------------------------
(* State machine of the calculator page.                                   *)

Init ==
    /\ groups = <<>>
    /\ roundCount = 4
    /\ fullMark = 2
    /\ resetRankImportUI \in BOOLEAN
    /\ calculated = <<>>
    /\ sheets = <<>>
    /\ updateLines = <<>>
    /\ locals = <<>>
    /\ alertMsg = ""
    /\ scoreCall = [called |-> FALSE, playerMark |-> 0, oppMark |-> 0,
                    fullMark |-> 0, result |-> NumberValue(Zero)]
    /\ tokenCall = [called |-> FALSE, token |-> MissingToken,
                    result |-> [opponentId |-> NullId, display |-> <<>>]]
    /\ sheetNames = <<>>
    /\ imports = <<>>
    /\ rowsCall = [called |-> FALSE, text |-> <<>>, result |-> <<>>]
    /\ groupCall = [called |-> FALSE, players |-> <<>>, result |-> <<>>,
                    locals |-> <<>>, previous |-> <<>>]
    /\ namesCall = [fileNames |-> <<>>, result |-> <<>>]
    /\ rankUpdate = [phase |-> "idle",
                     excelInput |-> [present |-> FALSE, sheet |-> <<>>],
                     textInput |-> [present |-> FALSE, text |-> <<>>],
                     sheet |-> <<>>, header |-> <<>>, nameIndex |-> 0, rankIndex |-> 0,
                     successList |-> <<>>, failList |-> <<>>,
                     finalSheetData |-> <<>>, written |-> FALSE]

\* the variables of the calculator page
pageVars == <<groups, roundCount, fullMark, resetRankImportUI, calculated, sheets,
              sheetNames, updateLines, locals, alertMsg, imports>>

\* the variables of the direct calls and of the rank update page
callVars == <<scoreCall, tokenCall, rowsCall, groupCall, namesCall, rankUpdate>>

\* the elements of a sequence
Range(q) == { q[i] : i \in 1..Len(q) }

\* a slip of app.js:142: no group is skipped
SkipsGroupNever(group) == FALSE

\* app.js:142-144  the groups the loop passes over
SkipsGroup(group) == Len(group.players) = 0

\* app.js:146-161  what one group adds: its sheet rows, the name of its sheet,
\* its update lines and (for the record) the locals of its calculateGroup call,
\* given every pass
GroupStep(acc, sheetBase, passes) ==
    [sheets |-> Append(acc.sheets, [i \in 1..Len(passes) |-> passes[i].row]),
     names |-> Append(acc.names, makeUniqueSheetName(sheetBase, Range(acc.names))),
     updateLines |-> acc.updateLines
                     \o groupUpdateLines([i \in 1..Len(passes) |-> passes[i].row]),
     locals |-> Append(acc.locals, [i \in 1..Len(passes) |-> passes[i].totals])]

\* app.js:141-162  the loop over the groups, from group g on
RECURSIVE GroupLoop(_, _, _, _, _)
GroupLoop(gs, g, rc, fm, acc) ==
    IF g > Len(gs) THEN acc
    ELSE IF SkipsGroup(gs[g]) THEN GroupLoop(gs, g + 1, rc, fm, acc)
    ELSE GroupLoop(gs, g + 1, rc, fm,
            GroupStep(acc, gs[g].sheetBase, PlayerPasses(gs[g].players, 1, rc, fm)))

\* app.js:135-139  the empty workbook and the empty list of update lines
EmptyBook == [sheets |-> <<>>, names |-> <<>>, updateLines |-> <<>>, locals |-> <<>>]

\* app.js:14-16  window.clearImportedGroups: the value it gives groups
clearImportedGroups == <<>>

\* app.js:179-182  the last step of calculate(): window.resetRankImportUI, when
\* index.html defines it, resets the import through window.clearImportedGroups
GroupsAfterReset == IF resetRankImportUI THEN clearImportedGroups ELSE groups

\* app.js:124-183  calculate(), with r and m read from the inputs "rounds" and
\* "markPerRound".  sheets, sheetNames and updateLines are what this run
\* wrote (nothing when it alerts), calculated the groups it read.
Calculate(r, m) ==
    /\ roundCount' = r
    /\ fullMark' = m * r
    /\ calculated' = groups
    /\ UNCHANGED <<resetRankImportUI, imports>>
    /\ UNCHANGED callVars
    /\ IF Len(groups) = 0
       THEN /\ alertMsg' = "Please import at least one valid .txt file"
            /\ sheets' = <<>>
            /\ sheetNames' = <<>>
            /\ updateLines' = <<>>
            /\ locals' = <<>>
            /\ UNCHANGED groups
       ELSE \E out \in {GroupLoop(groups, 1, r, m * r, EmptyBook)} :
                IF Len(out.names) = 0
                THEN /\ alertMsg' = "No valid player rows found in the imported files."
                     /\ sheets' = <<>>
                     /\ sheetNames' = <<>>
                     /\ updateLines' = <<>>
                     /\ locals' = <<>>
                     /\ UNCHANGED groups
                ELSE /\ alertMsg' = ""
                     /\ sheets' = out.sheets
                     /\ sheetNames' = out.names
                     /\ updateLines' = out.updateLines
                     /\ locals' = out.locals
                     /\ groups' = GroupsAfterReset

\* the click on the calculate button, whatever the two inputs hold
ClickCalculate ==
    \E r \in 1..MaxRounds, m \in MarkChoices : Calculate(r, m)

\* app.js:608-622  clearForm(): the import is reset, through
\* window.resetRankImportUI or by line 620; roundCount and fullMark stay
ClearForm ==
    /\ groups' = clearImportedGroups
    /\ UNCHANGED <<roundCount, fullMark, resetRankImportUI, calculated, sheets,
                   sheetNames, updateLines, locals, alertMsg, imports>>
    /\ UNCHANGED callVars

----------------------------------------------------------------------------
(* The import handler with its reads in flight, app.js:18-25 and 99-121.   *)
(* A run of the handler is [files, reads, settled]: reads[i] is the state  *)
(* of the FileReader of files[i] and settled tells that the await at 106   *)
(* has returned or thrown.  Promise.all resolves with the texts in the     *)
(* order of files when the last read has loaded and rejects at the first   *)
(* read that fails; the code after the await, or the catch block, runs     *)
(* before any other event is handled, so it belongs to the step of the     *)
(* read that settles the promise.                                          *)

MaxEvents == 2

AllLoaded(reads) == \A i \in 1..Len(reads) : reads[i] = "loaded"

\* app.js:99-106  the change event fires with the selection `files`: groups is
\* emptied, and with files selected the reads start and the handler waits
ChangeEvent(files) ==
    /\ groups' = <<>>
    /\ imports' = Append(imports,
                    [files |-> files,
                     reads |-> [i \in 1..Len(files) |-> "pending"],
                     settled |-> Len(files) = 0])
    /\ UNCHANGED <<roundCount, fullMark, resetRankImportUI, calculated, sheets,
                   sheetNames, updateLines, locals, alertMsg>>
    /\ UNCHANGED callVars

\* app.js:21, 106-115  the read of files[i] of run h loads; when it is the last
\* one the await returns the texts and groups is built from them
ReadLoaded(h, i) ==
    /\ imports[h].reads[i] = "pending"
    /\ LET reads == [imports[h].reads EXCEPT ![i] = "loaded"] IN
       IF AllLoaded(reads)
       THEN /\ imports' = [imports EXCEPT ![h].reads = reads, ![h].settled = TRUE]
            /\ groups' = GroupsOfFiles(imports[h].files)
       ELSE /\ imports' = [imports EXCEPT ![h].reads = reads]
            /\ UNCHANGED groups
    /\ UNCHANGED <<roundCount, fullMark, resetRankImportUI, calculated, sheets,
                   sheetNames, updateLines, locals, alertMsg>>
    /\ UNCHANGED callVars

\* app.js:22, 116-120  the read of files[i] of run h fails; the first failure of
\* a run makes the await throw and the catch block run
ReadFailed(h, i) ==
    /\ imports[h].reads[i] = "pending"
    /\ IF imports[h].settled
       THEN /\ imports' = [imports EXCEPT ![h].reads[i] = "failed"]
            /\ UNCHANGED <<groups, alertMsg>>
       ELSE /\ imports' = [imports EXCEPT ![h].reads[i] = "failed", ![h].settled = TRUE]
            /\ alertMsg' = "Failed to read one of the imported files. Please try again."
            /\ groups' = <<>>
    /\ UNCHANGED <<roundCount, fullMark, resetRankImportUI, calculated, sheets,
                   sheetNames, updateLines, locals>>
    /\ UNCHANGED callVars

ReaderLoads ==
    \E h \in 1..Len(imports) : \E i \in 1..Len(imports[h].files) : ReadLoaded(h, i)

ReaderFails ==
    \E h \in 1..Len(imports) : \E i \in 1..Len(imports[h].files) : ReadFailed(h, i)

----------------------------------------------------------------------------
(* Direct calls of getExpectedScore: any pair of ratings whose difference  *)
(* is within MaxDiff, under the fullMark that Init or calculate() left,    *)
(* the "markPerRound" input holding any value of ScoreMarks.               *)

ScoreRatings == {760, 1500}

ScoreMarks == {1, 2, 3, 5, 7}

ExpectedScoreCall(p, o) ==
    /\ scoreCall' = [called |-> TRUE, playerMark |-> p, oppMark |-> o,
                     fullMark |-> fullMark,
                     result |-> getExpectedScore(p, o, fullMark)]
    /\ UNCHANGED <<groups, roundCount, fullMark, resetRankImportUI, calculated, sheets,
                   sheetNames, updateLines, locals, alertMsg, imports,
                   tokenCall, rowsCall, rankUpdate, groupCall, namesCall>>

CallExpectedScore ==
    /\ ~scoreCall.called
    /\ \E p \in ScoreRatings : \E o \in (p - MaxDiff)..(p + MaxDiff) :
          ExpectedScoreCall(p, o)

\* calculate() with nothing imported, which sets roundCount and fullMark
SetMarks ==
    /\ ~scoreCall.called
    /\ Len(groups) = 0
    /\ \E r \in 1..MaxRounds, m \in ScoreMarks : Calculate(r, m)

NextScore == SetMarks \/ CallExpectedScore

SpecScore == Init /\ [][NextScore]_vars

----------------------------------------------------------------------------
(* Direct calls of parseOpponentToken: a missing token, or any string of   *)
(* up to MaxTokenLen characters of TokenAlphabet.                          *)

TokenAlphabet == {"W", "d", "L", "x", "0", "3", "-", " ", "\f"}

Strings(n) == UNION { [1..m -> TokenAlphabet] : m \in 0..n }

TokenInputs == {MissingToken} \cup { TokenOf(str) : str \in Strings(MaxTokenLen) }

OpponentTokenCall(token) ==
    /\ tokenCall' = [called |-> TRUE, token |-> token,
                     result |-> parseOpponentToken(token)]
    /\ UNCHANGED <<groups, roundCount, fullMark, resetRankImportUI, calculated, sheets,
                   sheetNames, updateLines, locals, alertMsg, imports,
                   scoreCall, rowsCall, rankUpdate, groupCall, namesCall>>

CallParseOpponentToken ==
    /\ ~tokenCall.called
    /\ \E token \in TokenInputs : OpponentTokenCall(token)

NextToken == CallParseOpponentToken

SpecToken == Init /\ [][NextToken]_vars

----------------------------------------------------------------------------
(* Direct calls of calculateGroup as calculate() makes them at app.js:146: *)
(* on a list of PlayerLists, with roundCount and fullMark just set from    *)
(* the two inputs (app.js:125-126).  The rounds entered need not be the    *)
(* round cells of the rows.  groupCall keeps the last call and, in         *)
(* previous, the call before it.                                           *)

\* the call recorded, given the passes of its map callback
GroupCallOf(players, r, m, passes) ==
    /\ roundCount' = r
    /\ fullMark' = m * r
    /\ groupCall' = [called |-> TRUE, players |-> players,
                     result |-> [index \in 1..Len(players) |-> passes[index].row],
                     locals |-> [index \in 1..Len(players) |-> passes[index].totals],
                     previous |-> IF groupCall.called
                                  THEN <<[players |-> groupCall.players,
                                          result |-> groupCall.result,
                                          locals |-> groupCall.locals]>>
                                  ELSE <<>>]
    /\ UNCHANGED <<groups, resetRankImportUI, calculated, sheets, sheetNames,
                   updateLines, locals, alertMsg, imports>>
    /\ UNCHANGED <<scoreCall, tokenCall, rowsCall, namesCall, rankUpdate>>

GroupCall(players, r, m) ==
    GroupCallOf(players, r, m, PlayerPasses(players, 1, r, m * r))

CallCalculateGroup ==
    /\ ~groupCall.called
    /\ \E r \in 1..MaxRounds, m \in MarkChoices, rc \in 1..MaxRounds :
          \E players \in PlayerLists(rc) : GroupCall(players, r, m)

NextGroup == CallCalculateGroup

SpecGroup == Init /\ [][NextGroup]_vars

----------------------------------------------------------------------------
(* Properties of calculateGroup, checked under SpecGroup.                  *)

\* the positions of the rows of the call
RowIds == IF groupCall.called THEN 1..Len(groupCall.result) ELSE {}

RowAt(id) == groupCall.result[id]

LocalsAt(id) == groupCall.locals[id]

\* the player a row was built for
PlayerAt(id) == groupCall.players[id]

\* number of players of the list
GroupSize(id) == Len(groupCall.players)

\* rating of the player at 1-based position n of the list
RatingAt(id, n) == ParseInt(groupCall.players[n][2]).n

\* the opponentId parsed from the cell the code reads for round i (1-based)
RoundId(id, i) == parseOpponentToken(CellAt(PlayerAt(id), 2 + i)).opponentId

\* the opponentId of round i is null, 0, negative or beyond the list
Unresolvable(id, i) ==
    \/ RoundId(id, i).null
    \/ RoundId(id, i).n <= 0
    \/ RoundId(id, i).n > GroupSize(id)

\* round i names the player's own position
SelfReference(id, i) == ~RoundId(id, i).null /\ RoundId(id, i).n = RowAt(id).seq

RECURSIVE SeqSum(_)
SeqSum(q) == IF Len(q) = 0 THEN 0 ELSE Head(q) + SeqSum(Tail(q))

\* -1, 0 or 1 as the signed natural numbers compare
SignedCmp(negA, a, negB, b) ==
    IF a = <<>> /\ b = <<>> THEN 0
    ELSE IF a = <<>> THEN (IF negB THEN 1 ELSE -1)
    ELSE IF b = <<>> THEN (IF negA THEN -1 ELSE 1)
    ELSE IF negA /\ ~negB THEN -1
    ELSE IF ~negA /\ negB THEN 1
    ELSE IF negA THEN CmpN(b, a)
    ELSE CmpN(a, b)

\* -1, 0 or 1 as x * c is below, equal to or above t, exactly, for a finite
\* Number x, an integer c > 0 and an integer t
ScaledCmp(x, c, t) ==
    SignedCmp(x.neg, MulN(ShiftLeft(x.m, Max(x.e, 0)), NatOf(c)),
              t < 0, ShiftLeft(NatOf(Abs(t)), Max(-x.e, 0)))

\* the decimal a text writes with at most one digit after the point, in
\* tenths; ok tells that the text is such a decimal
TenthsOf(text) ==
    LET neg == Len(text) > 0 /\ Head(text) = "-"
        body == IF neg THEN Tail(text) ELSE text
        ip == DigitPrefix(body)
        rest == SubSeq(body, Len(ip) + 1, Len(body))
        frac == Len(rest) = 2 /\ rest[1] = "." /\ IsDigit(rest[2])
        mag == DigitsValue(ip, 0) * 10 + (IF frac THEN DigitVal(rest[2]) ELSE 0)
    IN  [ok |-> Len(ip) > 0 /\ (Len(rest) = 0 \/ frac),
         n |-> IF neg THEN -mag ELSE mag]

\* the cell the code reads the total score from
ScoreCell(id) == CellAt(PlayerAt(id), 3 + roundCount)

\* the total score of the row is a decimal of at most one digit after the point
ScoreInTenths(id) == ~ScoreCell(id).missing /\ TenthsOf(ScoreCell(id).chars).ok

ScoreTenths(id) == TenthsOf(ScoreCell(id).chars).n

\* (totalScore - expectedScore) * kFactor of a row, in tenths
ExactChange(id) == (ScoreTenths(id) - TenthsOf(RowAt(id).expected).n) * RowAt(id).k

\* rating + (totalScore - expectedScore) * kFactor of a row, in tenths
ExactFinal(id) == 10 * RowAt(id).rank + ExactChange(id)

\* t tenths lie halfway between two integers
Halfway(t) == t % 10 = 5

\* the integer nearest to t tenths, the upper one of the two when t lies
\* halfway, as Math.round chooses
NearestInteger(t) == (t + 5) \div 10

\* the expected cell of a row is the expected score rounded to one decimal
ExpectedRounded(id) ==
    LET row == RowAt(id)
        unrounded == ToNumber(getExpectedScore(row.rank, row.avgOpponent, fullMark))
        e10 == TenthsOf(row.expected)
    IN  /\ e10.ok
        /\ ScaledCmp(unrounded, 20, 2 * e10.n - 1) >= 0
        /\ ScaledCmp(unrounded, 20, 2 * e10.n + 1) <= 0

\* the change cell of a row prints (totalScore - expectedScore) * kFactor, and
\* the Number of the change lies within a millionth of that product
ChangeIsProduct(id) ==
    /\ IsFinite(LocalsAt(id).change)
    /\ ScaledCmp(LocalsAt(id).change, 1000000, 100000 * ExactChange(id) - 1) >= 0
    /\ ScaledCmp(LocalsAt(id).change, 1000000, 100000 * ExactChange(id) + 1) <= 0
    /\ TenthsOf(RowAt(id).change).ok
    /\ TenthsOf(RowAt(id).change).n = ExactChange(id)

\* the final rating of a row is an integer
FinalIsInteger(id) ==
    /\ IsFinite(RowAt(id).finalRank)
    /\ MathRound(RowAt(id).finalRank) = RowAt(id).finalRank

\* the row of the worked example: rating 1500, K 20, fullMark 4, average
\* opponent 1500, total score 2.5
WorkedExample(id) ==
    /\ RowAt(id).rank = 1500 /\ RowAt(id).k = 20 /\ fullMark = 4
    /\ RowAt(id).avgOpponent = 1500
    /\ ScoreInTenths(id) /\ ScoreTenths(id) = 25

\* the cells the worked example gives: 2.0, 10.0 and 1510
WorkedExampleCells(id) ==
    /\ RowAt(id).expected = <<"2", ".", "0">>
    /\ RowAt(id).change = <<"1", "0", ".", "0">>
    /\ RowAt(id).finalRank = NumberOf(1510)

\* C1 as stated: in every row, expectedScore is the expected score rounded to
\* one decimal, ratingChange is (totalScore - expectedScore) * kFactor and
\* finalRating is rating + ratingChange rounded to the nearest integer, a half
\* rounded up; rating 1500, K 20, fullMark 4, average opponent 1500, total
\* score 2.5 give 2.0, 10.0 and 1510.
C1_FinalRatingIsRoundedSum ==
    \A id \in RowIds :
        /\ ExpectedRounded(id)
        /\ ScoreInTenths(id) =>
              /\ ChangeIsProduct(id)
              /\ FinalIsInteger(id)
              /\ IntOfNumber(RowAt(id).finalRank) = NearestInteger(ExactFinal(id))
        /\ WorkedExample(id) => WorkedExampleCells(id)

\* C1 as amended: in every row, expectedScore is the expected score rounded to
\* one decimal and the ratingChange cell prints (totalScore - expectedScore) *
\* kFactor, the Number of the change lying within a millionth of it; finalRating
\* is the integer nearest to rating + (totalScore - expectedScore) * kFactor
\* when that sum is not halfway between two integers, and one of the two
\* integers next to it when it is; rating 1500, K 20, fullMark 4, average
\* opponent 1500, total score 2.5 give 2.0, 10.0 and 1510.
C1_RatingChangeAndFinalRating ==
    \A id \in RowIds :
        /\ ExpectedRounded(id)
        /\ ScoreInTenths(id) =>
              /\ ChangeIsProduct(id)
              /\ FinalIsInteger(id)
              /\ ~Halfway(ExactFinal(id)) =>
                    IntOfNumber(RowAt(id).finalRank) = NearestInteger(ExactFinal(id))
              /\ Halfway(ExactFinal(id)) =>
                    IntOfNumber(RowAt(id).finalRank)
                        \in {NearestInteger(ExactFinal(id)) - 1,
                             NearestInteger(ExactFinal(id))}
        /\ WorkedExample(id) => WorkedExampleCells(id)

\* a list with K 16 one of whose rows has a change with a fraction above a half
\* and the final rating above the sum, and another a fraction below a half and
\* the final rating below the sum
C1_Witness ==
    \E up \in RowIds, down \in RowIds :
        /\ RowAt(up).k = 16 /\ RowAt(down).k = 16
        /\ ScoreInTenths(up) /\ ScoreInTenths(down)
        /\ ExactFinal(up) % 10 \in 6..9
        /\ 10 * IntOfNumber(RowAt(up).finalRank) > ExactFinal(up)
        /\ ExactFinal(down) % 10 \in 1..4
        /\ 10 * IntOfNumber(RowAt(down).finalRank) < ExactFinal(down)

\* C2: a round that names the player's own position counts as an empty round:
\* the empty count of a row is the number of its unresolvable or self-referencing
\* rounds and its total is the sum of the ratings named by the other rounds.
C2_SelfReferenceIsEmpty ==
    \A id \in RowIds :
        LET n == roundCount
            skipped(i) == Unresolvable(id, i) \/ SelfReference(id, i)
        IN  /\ LocalsAt(id).empty = Cardinality({ i \in 1..n : skipped(i) })
            /\ LocalsAt(id).total =
                 SeqSum([i \in 1..n |->
                            IF skipped(i) THEN 0 ELSE RatingAt(id, RoundId(id, i).n)])

\* C3: a round whose opponentId is null, 0, negative or greater than the number
\* of players counts as empty and adds nothing; any other round adds exactly the
\* rating of players[opponentId - 1] and leaves the empty count; so the resolved
\* and the empty rounds together are the roundCount rounds.
C3_RoundsResolvedOrEmpty ==
    \A id \in RowIds :
        LET n == roundCount
            resolved == { i \in 1..n : ~Unresolvable(id, i) }
        IN  /\ LocalsAt(id).empty = Cardinality({ i \in 1..n : Unresolvable(id, i) })
            /\ LocalsAt(id).total =
                 SeqSum([i \in 1..n |->
                            IF Unresolvable(id, i) THEN 0
                            ELSE RatingAt(id, RoundId(id, i).n)])
            /\ LocalsAt(id).divisor = Cardinality(resolved)
            /\ Cardinality(resolved) + LocalsAt(id).empty = roundCount

\* a row with a resolved round and a round that names a player beyond the list
C3_Witness ==
    \E id \in RowIds :
        /\ \E i \in 1..roundCount : ~Unresolvable(id, i)
        /\ \E i \in 1..roundCount :
              ~RoundId(id, i).null /\ RoundId(id, i).n > GroupSize(id)

\* C4: avgOpponentRating is the least integer a with a * divisor >= total when a
\* round resolved, and 0 when every round of the player is empty.
C4_AverageIsCeilingOrZero ==
    \A id \in RowIds :
        LET t == LocalsAt(id)
            a == RowAt(id).avgOpponent
        IN  /\ t.divisor >= 0
            /\ t.divisor > 0 => (a * t.divisor >= t.total /\ (a - 1) * t.divisor < t.total)
            /\ t.divisor = 0 => a = 0

\* a row all of whose rounds are empty, the divisor being 0
C4_Witness ==
    \E id \in RowIds :
        /\ LocalsAt(id).divisor = 0
        /\ LocalsAt(id).empty = roundCount
        /\ RowAt(id).avgOpponent = 0

----------------------------------------------------------------------------
(* Properties of getExpectedScore, checked under SpecScore.                *)

CallDiff == scoreCall.playerMark - scoreCall.oppMark

\* the largest difference a band covers (app.js:598)
LastBandMax == 734

\* the Number a call returned
CallResult == ToNumber(scoreCall.result)

\* the Number the mirrored call returns: the two ratings exchanged
MirrorResult ==
    ToNumber(getExpectedScore(scoreCall.oppMark, scoreCall.playerMark, scoreCall.fullMark))

\* fullMark * 0.pct as the code multiplies
Product(fm, pct) == NumberMul(NumberOf(fm), LiteralOf(pct))

\* the distance of two neighbouring Numbers at the integer n > 0: one unit in
\* the last place of n
UnitInLastPlace(n) == Normalised(FALSE, <<1>>, NumberOf(n).e)

\* the distance of the Number x from the integer n
DistanceFrom(x, n) ==
    IF NumberCmp(x, NumberOf(n)) >= 0 THEN NumberSub(x, NumberOf(n))
    ELSE NumberSub(NumberOf(n), x)

\* x is the integer n > 0 or one of the two Numbers next to it
WithinOneUnit(x, n) ==
    /\ IsFinite(x)
    /\ NumberCmp(DistanceFrom(x, n), UnitInLastPlace(n)) <= 0

\* C5 as stated: for |diff| <= 734 the result of a call and the result of the
\* mirrored call (the two ratings exchanged) add up to exactly fullMark.
C5_MirroredScoresSumToFullMark ==
    (scoreCall.called /\ Abs(CallDiff) <= LastBandMax) =>
        NumberAdd(CallResult, MirrorResult) = NumberOf(scoreCall.fullMark)

\* C5 as amended: for |diff| <= 734 the two fractions of the band add up to 1
\* (both are 0.5 on the band 0..3), and the result of a call and the result of
\* the mirrored call add up to fullMark when fullMark is 1, 2 or 4, and for
\* every other fullMark to fullMark or to one of the two Numbers next to it:
\* within one unit in the last place of fullMark.
C5_MirroredScoresSumNearFullMark ==
    (scoreCall.called /\ Abs(CallDiff) <= LastBandMax) =>
        LET band == FirstBand(breakpoints(CallDiff), Abs(CallDiff), 1) IN
        /\ band > 0
        /\ breakpoints(CallDiff)[band][3] + breakpoints(-CallDiff)[band][3] = 100
        /\ band = 1 => breakpoints(CallDiff)[band][3] = 50
        /\ WithinOneUnit(NumberAdd(CallResult, MirrorResult), scoreCall.fullMark)
        /\ scoreCall.fullMark \in {1, 2, 4} =>
              NumberAdd(CallResult, MirrorResult) = NumberOf(scoreCall.fullMark)

\* a call with fullMark 3 whose result and mirror image add up to the Number
\* next below 3
C5_Witness ==
    /\ scoreCall.called
    /\ CallDiff = 146
    /\ scoreCall.fullMark = 3
    /\ CallResult = Product(3, 70)
    /\ MirrorResult = Product(3, 30)
    /\ NumberCmp(NumberAdd(CallResult, MirrorResult), NumberOf(3)) < 0
    /\ DistanceFrom(NumberAdd(CallResult, MirrorResult), 3) = UnitInLastPlace(3)

\* C6: beyond 734 no band matches and the result is fullMark for diff >= 0 and 0
\* for diff < 0; at |diff| = 734 it is still 0.99 * fullMark or 0.01 * fullMark.
C6_SaturationBeyond734 ==
    scoreCall.called =>
        /\ CallDiff >= 735 => CallResult = NumberOf(scoreCall.fullMark)
        /\ CallDiff <= -735 => CallResult = Zero
        /\ CallDiff = 734 => CallResult = Product(scoreCall.fullMark, 99)
        /\ CallDiff = -734 => CallResult = Product(scoreCall.fullMark, 1)
        /\ Abs(CallDiff) >= 735
             <=> FirstBand(breakpoints(CallDiff), Abs(CallDiff), 1) = 0

\* a call just beyond the last band, below the opponent
C6_Witness ==
    /\ scoreCall.called
    /\ CallDiff = -735
    /\ scoreCall.fullMark = 4
    /\ scoreCall.result = NumberValue(Zero)

\* C7: the table built by a call is ordered, without overlap and without gap over
\* 0..734: the first band starts at 0, the last ends at 734, every band starts
\* one above the end of the band before it, and an absDiff within 0..734 lies in
\* exactly one band.
C7_BandsPartition0To734 ==
    scoreCall.called =>
        LET table == breakpoints(CallDiff) IN
        /\ table[1][1] = 0
        /\ table[Len(table)][2] = 734
        /\ \A i \in 1..Len(table) : table[i][1] <= table[i][2]
        /\ \A i \in 2..Len(table) : table[i][1] = table[i - 1][2] + 1
        /\ Abs(CallDiff) <= 734 =>
             Cardinality({ i \in 1..Len(table) : BandMatches(table[i], Abs(CallDiff)) }) = 1

\* a call whose absDiff is the lower edge of a band
C7_Witness ==
    /\ scoreCall.called
    /\ Abs(CallDiff) = 620
    /\ FirstBand(breakpoints(CallDiff), Abs(CallDiff), 1) = Len(breakpoints(CallDiff))

\* C8 as stated: the band table has exactly 49 entries.
C8_TableHas49Entries ==
    scoreCall.called => Len(breakpoints(CallDiff)) = 49

\* C8 as amended: the band table has exactly 50 entries.
C8_TableHas50Entries ==
    scoreCall.called => Len(breakpoints(CallDiff)) = 50

\* a call that used the fiftieth entry
C8_Witness ==
    /\ scoreCall.called
    /\ FirstBand(breakpoints(CallDiff), Abs(CallDiff), 1) = 50
    /\ CallResult = Product(scoreCall.fullMark, 99)

\* C9: for |diff| <= 3 the result is fullMark * 0.5 whatever the sign of diff.
C9_DeadBandIsHalf ==
    (scoreCall.called /\ Abs(CallDiff) <= 3) =>
        /\ CallResult = Product(scoreCall.fullMark, 50)
        /\ ScaledCmp(CallResult, 2, scoreCall.fullMark) = 0

\* a call with the player three points below the opponent
C9_Witness ==
    /\ scoreCall.called
    /\ CallDiff = -3
    /\ scoreCall.fullMark = 4
    /\ CallResult = NumberOf(2)

----------------------------------------------------------------------------
(* Properties of parseOpponentToken, checked under SpecToken.              *)

\* value of a string of decimal digits
RECURSIVE DigitsNumber(_)
DigitsNumber(ds) ==
    IF Len(ds) = 0 THEN 0
    ELSE 10 * DigitsNumber(SubSeq(ds, 1, Len(ds) - 1)) + DigitVal(ds[Len(ds)])

AllDigits(str) == Len(str) > 0 /\ \A i \in 1..Len(str) : IsDigit(str[i])

MarkerChars == {"W", "D", "L", "w", "d", "l"}

\* a three-player group whose first player has the one round token str
GroupWithToken(str) ==
    [i \in 1..3 |->
        <<NameOf(i), ToString(1500 + 3 * i), <<"2", "0">>,
          IF i = 1 THEN str ELSE FillToken, <<"0", ".", "5">>>>]

\* C10: a token made of an optional marker W, D or L (either case) followed by
\* decimal digits n gives opponentId n and the token itself as display; only one
\* marker is stripped; in calculateGroup such a token with n within the group adds
\* players[n - 1].rating and appears unchanged in the output row.
C10_MarkerStrippedDisplayKept ==
    (tokenCall.called /\ ~tokenCall.token.missing) =>
        LET str == tokenCall.token.chars
            marked == Len(str) > 0 /\ str[1] \in MarkerChars
            digits == IF marked THEN Tail(str) ELSE str
        IN  /\ AllDigits(digits) =>
                /\ tokenCall.result.opponentId = IdOf(DigitsNumber(digits))
                /\ tokenCall.result.display = str
                /\ PlayerRow(GroupWithToken(str), 1, 1, 4).rounds = <<str>>
                /\ DigitsNumber(digits) \in 1..3 =>
                      OpponentTotals(GroupWithToken(str), GroupWithToken(str)[1], 1)
                        = [total |-> 1500 + 3 * DigitsNumber(digits),
                           empty |-> 0, divisor |-> 1]
            /\ (marked /\ Len(digits) > 0 /\ digits[1] \in MarkerChars) =>
                   tokenCall.result.opponentId = NullId

\* the token W3 has been parsed
C10_Witness ==
    /\ tokenCall.called
    /\ tokenCall.token = TokenOf(<<"W", "3">>)
    /\ tokenCall.result = [opponentId |-> IdOf(3), display |-> <<"W", "3">>]
    /\ OpponentTotals(GroupWithToken(<<"W", "3">>), GroupWithToken(<<"W", "3">>)[1], 1).total
         = 1509

\* an optional sign followed by decimal digits and nothing else
IsBase10Integer(str) ==
    IF Len(str) > 0 /\ (str[1] = "-" \/ str[1] = "+")
    THEN AllDigits(Tail(str))
    ELSE AllDigits(str)

\* C11: every call returns a result; a missing, empty or white-space token gives
\* opponentId null and display ""; any other token gives its trimmed text as
\* display, and opponentId null whenever the characters that remain after the
\* optional marker are not a base-10 integer (as in "WW3", "x", "3x", "W").
C11_NonIntegerGivesNull ==
    tokenCall.called =>
        LET raw == IF tokenCall.token.missing THEN <<>> ELSE Trim(tokenCall.token.chars)
            rest == IF Len(raw) > 0 /\ raw[1] \in MarkerChars THEN Tail(raw) ELSE raw
        IN  /\ Len(raw) = 0 =>
                tokenCall.result = [opponentId |-> NullId, display |-> <<>>]
            /\ Len(raw) > 0 =>
                /\ tokenCall.result.display = raw
                /\ ~IsBase10Integer(rest) => tokenCall.result.opponentId = NullId

----------------------------------------------------------------------------
(* Two calls of calculateGroup on lists that differ by the marker of one   *)
(* round token.  The first list is one of MarkedLists: MaxPlayers rows,    *)
(* one of which (the focus) has a token of TokenPool in one round; the     *)
(* second list has one round cell of the first with another marker, or     *)
(* with none.  Both calls run under the same roundCount and fullMark.      *)

Markers == {<<>>} \cup { <<c>> : c \in MarkerChars }

\* what is left of a cell when its marker is taken away
TokenBody(token) ==
    IF Len(Trim(token)) > 0 /\ Trim(token)[1] \in MarkerChars
    THEN Tail(Trim(token))
    ELSE Trim(token)

\* the cell with the marker m in place of its own
Remark(token, m) == m \o TokenBody(token)

MarkedProfiles == {<<1500, 3>>, <<760, 740>>}

OneToken(rc, j, t) == [i \in 1..rc |-> IF i = j THEN t ELSE FillToken]

MarkedLists(rc) ==
    { MkPlayers(MaxPlayers, rc, focus, prof, 20, <<"2", ".", "5">>, OneToken(rc, j, t)) :
        focus \in 1..MaxPlayers, prof \in MarkedProfiles, j \in 1..rc, t \in TokenPool }

\* the players with round j (1-based) of the row at position pos re-marked
RemarkedPlayers(players, pos, j, m) ==
    [players EXCEPT ![pos][3 + j] = Remark(@, m)]

CallMarked ==
    /\ ~groupCall.called
    /\ \E rc \in 1..MaxRounds, m \in MarkChoices :
          \E players \in MarkedLists(rc) : GroupCall(players, rc, m)

CallRemarked ==
    /\ groupCall.called
    /\ Len(groupCall.previous) = 0
    /\ \E pos \in 1..Len(groupCall.players), j \in 1..roundCount, m \in Markers :
          GroupCall(RemarkedPlayers(groupCall.players, pos, j, m),
                    roundCount, fullMark \div roundCount)

NextMarker == CallMarked \/ CallRemarked

SpecMarker == Init /\ [][NextMarker]_vars

\* two player lists that differ at most by the markers of their rc round cells
SameButMarkers(p, q, rc) ==
    /\ Len(p) = Len(q)
    /\ \A i \in 1..Len(p) :
          /\ Len(p[i]) = Len(q[i])
          /\ \A c \in 1..Len(p[i]) :
                IF c \in 4..(3 + rc)
                THEN TokenBody(p[i][c]) = TokenBody(q[i][c])
                ELSE p[i][c] = q[i][c]

\* the computed values of a row
Computed(row) == <<row.avgOpponent, row.expected, row.change, row.finalRank>>

\* C12: two groups whose player lists differ only by the W/D/L marker (either
\* case, present or absent) of round tokens get, row by row, the same
\* avgOpponentRating, expectedScore, ratingChange and finalRating; the rows differ
\* only by the round tokens they display, which are the tokens of each list.
C12_MarkerDoesNotInfluence ==
    (groupCall.called /\ Len(groupCall.previous) = 1
        /\ SameButMarkers(groupCall.previous[1].players, groupCall.players, roundCount)) =>
        \A i \in 1..Len(groupCall.result) :
            /\ Computed(groupCall.previous[1].result[i]) = Computed(groupCall.result[i])
            /\ [groupCall.previous[1].result[i] EXCEPT !.rounds = groupCall.result[i].rounds]
                  = groupCall.result[i]
            /\ groupCall.previous[1].result[i].rounds
                  = SubSeq(groupCall.previous[1].players[i], 4, 3 + roundCount)
            /\ groupCall.result[i].rounds = SubSeq(groupCall.players[i], 4, 3 + roundCount)

\* the token W3 in one list and 3 in the other, the round resolved in both
C12_Witness ==
    /\ groupCall.called /\ Len(groupCall.previous) = 1
    /\ \E i \in 1..Len(groupCall.result) :
          /\ groupCall.previous[1].result[i].rounds[1] = <<"W", "3">>
          /\ groupCall.result[i].rounds[1] = <<"3">>
          /\ groupCall.previous[1].locals[i].divisor = 1
          /\ groupCall.locals[i].divisor = 1
          /\ groupCall.previous[1].result[i].avgOpponent = groupCall.result[i].avgOpponent
          /\ groupCall.result[i].avgOpponent > 0

----------------------------------------------------------------------------
(* Properties of calculate() and of the rows it collects.                  *)

\* the groups that calculate() does not pass over, in order
FilledGroups(gs) == SelectSeq(gs, LAMBDA group : Len(group.players) > 0)

\* the last calculate() wrote a workbook, for the groups held in calculated
BookOfGroups == Len(calculated) > 0 /\ Len(sheets) > 0

\* C13: calculateGroup returns one row per input player, in input order: row i
\* has seq i (1-based) and the name, rating and K-factor of input player i,
\* whatever the ratings are.
C13_RowsFollowInputOrder ==
    groupCall.called =>
        /\ Len(groupCall.result) = Len(groupCall.players)
        /\ \A i \in 1..Len(groupCall.result) :
              /\ groupCall.result[i].seq = i
              /\ groupCall.result[i].name = groupCall.players[i][1]
              /\ groupCall.result[i].rank = DigitsNumber(groupCall.players[i][2])
              /\ groupCall.result[i].k = DigitsNumber(groupCall.players[i][3])

\* three rows whose ratings rise from the first to the last, kept in that order
C13_Witness ==
    /\ groupCall.called
    /\ Len(groupCall.result) = 3
    /\ groupCall.result[1].rank < groupCall.result[2].rank
    /\ groupCall.result[2].rank < groupCall.result[3].rank
    /\ groupCall.players[3][1] = groupCall.result[3].name
    /\ groupCall.result[3].seq = 3

\* C14: calculateGroup run again on the same player list yields the same rows:
\* when calculate() computes the groups it computed before, whatever happened
\* in between, every sheet has the rows it had.
C14_SameListSameRows ==
    [][(BookOfGroups /\ calculated' = calculated /\ Len(sheets') > 0)
          => sheets' = sheets]_vars

----------------------------------------------------------------------------
(* Direct calls of parsePlayersFromText: texts of up to MaxLines lines,    *)
(* every line made of a name, a rating, a K-factor and further cells.      *)

MaxLines == 2

NameCells == {<<"A">>, <<>>}

RatingCells == {<<"1", "5">>, <<"1", "x">>, <<"x">>}

KCells == {<<"2", "0">>, <<"k">>}

\* the cells after the K-factor
TailCells == {<<>>, <<<<"1">>>>, <<<<"1">>, <<"2", ".", "5">>>>}

\* Array.prototype.join(sep)
RECURSIVE Join(_, _)
Join(pieces, sep) ==
    IF Len(pieces) = 0 THEN <<>>
    ELSE IF Len(pieces) = 1 THEN pieces[1]
    ELSE pieces[1] \o sep \o Join(Tail(pieces), sep)

LineInputs ==
    { Join(<<name, rating, k>> \o tail, <<",">>) :
        name \in NameCells, rating \in RatingCells, k \in KCells, tail \in TailCells }

EndsOfLine == {<<"\n">>, <<"\r", "\n">>}

TextInputs ==
    { Join(lines, eol) :
        lines \in UNION { [1..n -> LineInputs] : n \in 0..MaxLines }, eol \in EndsOfLine }

PlayersFromTextCall(text) ==
    /\ rowsCall' = [called |-> TRUE, text |-> text,
                    result |-> parsePlayersFromText(text)]
    /\ UNCHANGED <<groups, roundCount, fullMark, resetRankImportUI, calculated, sheets,
                   sheetNames, updateLines, locals, alertMsg, imports,
                   scoreCall, tokenCall, rankUpdate, groupCall, namesCall>>

CallParsePlayersFromText ==
    /\ ~rowsCall.called
    /\ \E text \in TextInputs : PlayersFromTextCall(text)

NextRows == CallParsePlayersFromText

SpecRows == Init /\ [][NextRows]_vars

\* C15: no row with an empty name field, a non-integer rating field or a
\* non-integer K-factor field is among the rows parsePlayersFromText returns.
C15_RowsHaveNameRatingAndK ==
    rowsCall.called =>
        \A i \in 1..Len(rowsCall.result) :
            /\ Len(rowsCall.result[i][1]) > 0
            /\ IsBase10Integer(rowsCall.result[i][2])
            /\ IsBase10Integer(rowsCall.result[i][3])

----------------------------------------------------------------------------
(* Files.  A file is [name, text]; the rows of these texts have one round  *)
(* column.  Direct calls of sanitizeSheetName and makeUniqueSheetName as   *)
(* calculate() and the import handler make them (app.js:111, 160): up to   *)
(* MaxFiles calls on the names of BookFiles, in any order and with         *)
(* repeats, all on one set of used names.                                  *)

MaxFiles == 3

\* "A,1500,20,W2,1\nB,1400,20,L1,0\nC,1600,15,0,0.5"
TextThreeRows ==
    <<"A", ",", "1", "5", "0", "0", ",", "2", "0", ",", "W", "2", ",", "1",
      "\n", "B", ",", "1", "4", "0", "0", ",", "2", "0", ",", "L", "1",
      ",", "0", "\n", "C", ",", "1", "6", "0", "0", ",", "1", "5", ",",
      "0", ",", "0", ".", "5">>

\* "D,1500,20,1,0.5"
TextOneRow ==
    <<"D", ",", "1", "5", "0", "0", ",", "2", "0", ",", "1", ",", "0", ".",
      "5">>

\* "E,1450,15,,1\r\n"
TextByeRow ==
    <<"E", ",", "1", "4", "5", "0", ",", "1", "5", ",", ",", "1", "\r", "\n">>

\* "x,y\n": no line is a player row
TextNoRows ==
    <<"x", ",", "y", "\n">>

Repeat(c, n) == [i \in 1..n |-> c]

DotTxt == <<".", "t", "x", "t">>

\* a name whose first SheetNameLimit characters are n
LongName == Repeat("n", SheetNameLimit)

BookFiles ==
    { [name |-> <<"a">> \o DotTxt, text |-> TextThreeRows],
      [name |-> <<"a">>, text |-> TextOneRow],
      [name |-> <<"a", "_", "2", ".", "c", "s", "v">>, text |-> TextByeRow],
      [name |-> LongName \o DotTxt, text |-> TextOneRow],
      [name |-> LongName \o <<"x">> \o DotTxt, text |-> TextByeRow],
      [name |-> Slice(LongName, SheetNameLimit - 2) \o <<"_", "2">> \o DotTxt,
       text |-> TextOneRow],
      [name |-> <<"b", "?">> \o DotTxt, text |-> TextNoRows],
      [name |-> <<" ">> \o DotTxt, text |-> TextOneRow] }

\* the sequences of 1..n different files
Selections(files, n) ==
    { sel \in UNION { [1..m -> files] : m \in 1..n } :
        \A i \in 1..Len(sel), j \in 1..Len(sel) : i # j => sel[i] # sel[j] }

\* app.js:111 and 160: the name of a file becomes the name of a sheet
CallMakeUniqueSheetName(fileName) ==
    /\ namesCall' =
          [fileNames |-> Append(namesCall.fileNames, fileName),
           result |-> Append(namesCall.result,
                             makeUniqueSheetName(sanitizeSheetName(fileName),
                                                 Range(namesCall.result)))]
    /\ UNCHANGED pageVars
    /\ UNCHANGED <<scoreCall, tokenCall, rowsCall, groupCall, rankUpdate>>

NameSheet ==
    /\ Len(namesCall.fileNames) < MaxFiles
    /\ \E file \in BookFiles : CallMakeUniqueSheetName(file.name)

NextBook == NameSheet

SpecBook == Init /\ [][NextBook]_vars

\* the sheet names given before the s-th sheet
EarlierNames(s) == { namesCall.result[t] : t \in 1..(s - 1) }

\* the base shortened to leave room for _k
FitName(base, k) ==
    SubSeq(base, 1, Min(Len(base), SheetNameLimit - Len(Suffix(k)))) \o Suffix(k)

\* every sheet named so far has the base of the s-th
SameBaseThroughout(s) ==
    \A t \in 1..Len(namesCall.result) :
        sanitizeSheetName(namesCall.fileNames[t]) = sanitizeSheetName(namesCall.fileNames[s])

\* the s-th sheet name has at most 31 characters; it is the base when the base
\* is not yet used, and otherwise the base, shortened to fit, followed by _k
\* for the smallest k >= 2 whose candidate is not yet used
FitsAndLeastSuffix(s) ==
    LET base == sanitizeSheetName(namesCall.fileNames[s]) IN
    /\ Len(namesCall.result[s]) <= SheetNameLimit
    /\ base \notin EarlierNames(s) => namesCall.result[s] = base
    /\ base \in EarlierNames(s) =>
          \E k \in 2..(s + 1) :
              /\ namesCall.result[s] = FitName(base, k)
              /\ FitName(base, k) \notin EarlierNames(s)
              /\ \A j \in 2..(k - 1) : FitName(base, j) \in EarlierNames(s)

RECURSIVE Flatten(_)
Flatten(seqs) == IF Len(seqs) = 0 THEN <<>> ELSE Head(seqs) \o Flatten(Tail(seqs))

\* C17: the update feed has one line name,oldRating,newRating per computed
\* player, oldRating the imported rating and newRating the finalRating of the
\* player's row, in the order of the groups and, within a group, of its players;
\* a group without players adds no line.
C17_OneUpdateLinePerPlayer ==
    BookOfGroups =>
        /\ Len(sheets) = Len(FilledGroups(calculated))
        /\ updateLines =
             Flatten([s \in 1..Len(sheets) |->
                        [i \in 1..Len(FilledGroups(calculated)[s].players) |->
                            <<FilledGroups(calculated)[s].players[i][1],
                              DigitsNumber(FilledGroups(calculated)[s].players[i][2]),
                              sheets[s][i].finalRank>>]])
        /\ Len(updateLines) =
             SeqSum([g \in 1..Len(calculated) |-> Len(calculated[g].players)])

\* two groups with rows: the three lines of the first group, in the order of
\* its players, come before the line of the second, and a rating has changed
C17_Witness ==
    /\ BookOfGroups
    /\ Len(calculated) = 2
    /\ Len(calculated[1].players) = 3
    /\ Len(calculated[2].players) = 1
    /\ Len(sheets) = 2
    /\ Len(updateLines) = 4
    /\ \A i \in 1..3 :
          /\ updateLines[i][1] = calculated[1].players[i][1]
          /\ updateLines[i][3] = sheets[1][i].finalRank
    /\ updateLines[4][1] = calculated[2].players[1][1]
    /\ updateLines[4][1] \notin { updateLines[i][1] : i \in 1..3 }
    /\ updateLines[4][3] = sheets[2][1].finalRank
    /\ updateLines[1][3] # NumberOf(updateLines[1][2])

\* C18: calculateGroup is never called with an empty player list: a group
\* without players is passed over, and with no group at all, or no group with
\* a player, calculate() alerts and writes neither a workbook nor update lines.
C18_EmptyGroupsSkippedOrAlert ==
    /\ Len(locals) = Len(sheets)
    /\ \A s \in 1..Len(locals) : Len(locals[s]) > 0
    /\ Len(sheetNames) = Len(sheets)
    /\ Len(sheets) = Len(FilledGroups(calculated))
    /\ Len(FilledGroups(calculated)) = 0 =>
          (Len(sheets) = 0 /\ Len(sheetNames) = 0 /\ Len(updateLines) = 0)
    /\ alertMsg = "No valid player rows found in the imported files." =>
          (Len(calculated) > 0 /\ Len(FilledGroups(calculated)) = 0)
    /\ alertMsg = "Please import at least one valid .txt file" =>
          (Len(calculated) = 0 /\ Len(sheets) = 0 /\ Len(sheetNames) = 0
              /\ Len(updateLines) = 0)

\* calculate() has run on an import whose only file has no player row
C18_Witness ==
    /\ Len(calculated) = 1
    /\ Len(calculated[1].players) = 0
    /\ alertMsg = "No valid player rows found in the imported files."
    /\ Len(sheets) = 0
    /\ Len(updateLines) = 0

----------------------------------------------------------------------------
(* The calculator page: any selection of up to MaxSelected of ReadFiles,   *)
(* the selection FilledFiles of two files with player rows, or none, at a  *)
(* change event (MaxEvents of them), every read loading or failing at any  *)
(* moment, and calculate() and clearForm() at any moment.                  *)

MaxSelected == 2

ReadFiles ==
    { [name |-> <<"a">> \o DotTxt, text |-> TextThreeRows],
      [name |-> <<"b", "?">> \o DotTxt, text |-> TextNoRows] }

\* app.js:100  Array.from(e.target.files || []): also the empty selection
\* a selection both of whose files hold player rows
FilledFiles ==
    <<[name |-> <<"a">> \o DotTxt, text |-> TextThreeRows],
      [name |-> <<"a">>, text |-> TextOneRow]>>

FileLists == {<<>>, FilledFiles} \cup Selections(ReadFiles, MaxSelected)

SelectFiles ==
    /\ Len(imports) < MaxEvents
    /\ \E files \in FileLists : ChangeEvent(files)

Next == SelectFiles \/ ReaderLoads \/ ReaderFails \/ ClickCalculate \/ ClearForm

Spec == Init /\ [][Next]_vars

\* a run whose await has not returned yet
Waiting(h) == ~imports[h].settled

\* C19: when a second change event fired while reads of an earlier one were
\* pending and every read has loaded, in whatever order, groups holds the groups
\* of the most recent selection.
C19_LatestSelectionWins ==
    [][(/\ Len(imports) >= 2
        /\ \E h \in 1..Len(imports) : ~AllLoaded(imports[h].reads)
        /\ \A h \in 1..Len(imports) : AllLoaded(imports'[h].reads)) =>
            groups' = GroupsOfFiles(imports[Len(imports)].files)]_vars

\* C20: groups is empty from the change event until the reads of the selection
\* complete; the run whose last read loads leaves groups[i] built from files[i]
\* for every i; the run one of whose reads fails leaves groups empty; and a
\* calculate() issued while a run waits alerts and writes nothing.
C20_ImportAllOrNothing ==
    /\ []((\E h \in 1..Len(imports) : Waiting(h)) => Len(groups) = 0)
    /\ [][/\ \A h \in 1..Len(imports) :
                (Waiting(h) /\ ~Waiting(h)') =>
                    IF AllLoaded(imports'[h].reads)
                    THEN /\ Len(groups') = Len(imports[h].files)
                         /\ \A i \in 1..Len(groups') :
                               groups'[i] = GroupOfFile(imports[h].files[i])
                    ELSE Len(groups') = 0
          /\ ((\E h \in 1..Len(imports) : Waiting(h)) /\ ClickCalculate) =>
                (/\ alertMsg' = "Please import at least one valid .txt file"
                 /\ Len(sheets') = 0
                 /\ Len(updateLines') = 0)]_vars

----------------------------------------------------------------------------
(* Bounds and monotony of getExpectedScore, checked under SpecScore.       *)

\* C21: for a positive fullMark the result of a call lies between 0 and fullMark,
\* and the call whose difference is one larger returns at least as much: the
\* result never decreases with diff, across 0, the band edges and +-734/735.
C21_BoundedAndMonotone ==
    (scoreCall.called /\ scoreCall.fullMark > 0) =>
        /\ IsFinite(CallResult)
        /\ NumberCmp(Zero, CallResult) <= 0
        /\ NumberCmp(CallResult, NumberOf(scoreCall.fullMark)) <= 0
        /\ NumberCmp(CallResult,
                     ToNumber(getExpectedScore(scoreCall.playerMark + 1,
                                               scoreCall.oppMark,
                                               scoreCall.fullMark))) <= 0

\* a call on the last band, one point below the saturation edge
C21_Witness ==
    /\ scoreCall.called
    /\ CallDiff = LastBandMax
    /\ scoreCall.fullMark = 4
    /\ CallResult = Product(4, 99)
    /\ getExpectedScore(scoreCall.playerMark + 1, scoreCall.oppMark,
                        scoreCall.fullMark) = StringValue(<<"4", ".", "0">>)

----------------------------------------------------------------------------
(* Rows without a resolved round, and the size of the rating change,       *)
(* checked under SpecGroup.                                                *)

\* C22: a row all of whose rounds are empty (divisor 0) has its expected score
\* computed against the opponent rating 0; when its rating is above 734 the
\* expected score is fullMark and the change is (score - fullMark) * k, which
\* is at most 0 when the score is at most fullMark and k is not negative.
C22_AllEmptyPlaysAgainstZero ==
    \A id \in RowIds :
        LET row == RowAt(id) IN
        LocalsAt(id).divisor = 0 =>
            /\ row.avgOpponent = 0
            /\ row.expected = ToFixed1(ToNumber(getExpectedScore(row.rank, 0, fullMark)))
            /\ row.rank > LastBandMax =>
                 /\ TenthsOf(row.expected).ok
                 /\ TenthsOf(row.expected).n = 10 * fullMark
                 /\ LocalsAt(id).change
                      = NumberMul(NumberSub(row.score, NumberOf(fullMark)), NumberOf(row.k))
                 /\ ScoreInTenths(id) =>
                      /\ TenthsOf(row.change).ok
                      /\ TenthsOf(row.change).n
                           = (ScoreTenths(id) - 10 * fullMark) * row.k
                 /\ (IsFinite(row.score) /\ row.k >= 0
                        /\ NumberCmp(row.score, NumberOf(fullMark)) <= 0) =>
                      /\ IsFinite(LocalsAt(id).change)
                      /\ NumberCmp(LocalsAt(id).change, Zero) <= 0
                      /\ NumberCmp(row.finalRank, NumberOf(row.rank)) <= 0

\* a row with byes only and a total score of 0.5 out of 2 loses 30 points
C22_Witness ==
    \E id \in RowIds :
        /\ LocalsAt(id).divisor = 0
        /\ LocalsAt(id).empty = roundCount
        /\ RowAt(id).rank = 1500 /\ RowAt(id).k = 20
        /\ RowAt(id).score = DecimalToNumber(FALSE, NatOf(5), -1) /\ fullMark = 2
        /\ RowAt(id).expected = <<"2", ".", "0">>
        /\ RowAt(id).change = <<"-", "3", "0", ".", "0">>
        /\ RowAt(id).finalRank = NumberOf(1470)

\* C23: in every row with k >= 0 and 0 <= score <= fullMark the change is at most
\* k * fullMark in absolute value, and the final rating lies within k * fullMark
\* of the rating.
C23_ChangeBoundedByK ==
    \A id \in RowIds :
        LET row == RowAt(id) IN
        (row.k >= 0 /\ IsFinite(row.score) /\ NumberCmp(Zero, row.score) <= 0
            /\ NumberCmp(row.score, NumberOf(fullMark)) <= 0) =>
            /\ IsFinite(LocalsAt(id).change)
            /\ NumberCmp(LocalsAt(id).change, NumberOf(row.k * fullMark)) <= 0
            /\ NumberCmp(NumberOf(-(row.k * fullMark)), LocalsAt(id).change) <= 0
            /\ IsFinite(row.finalRank)
            /\ NumberCmp(NumberOf(row.rank - row.k * fullMark), row.finalRank) <= 0
            /\ NumberCmp(row.finalRank, NumberOf(row.rank + row.k * fullMark)) <= 0

\* a row with a resolved round whose rating falls, by less than k * fullMark
C23_Witness ==
    \E id \in RowIds :
        /\ LocalsAt(id).divisor > 0
        /\ RowAt(id).score = DecimalToNumber(FALSE, NatOf(5), -1) /\ fullMark = 4
        /\ NumberCmp(LocalsAt(id).change, NumberOf(-RowAt(id).k)) < 0
        /\ NumberCmp(RowAt(id).finalRank, NumberOf(RowAt(id).rank)) < 0
        /\ NumberCmp(NumberOf(RowAt(id).rank - RowAt(id).k * fullMark),
                     RowAt(id).finalRank) <= 0

----------------------------------------------------------------------------
(* Distinct sheet names, checked under SpecBook.                           *)

\* C24: every sheet name returned by makeUniqueSheetName was not among the names
\* given before it in the same workbook, so the sheet names of one workbook are
\* pairwise different, whatever the bases: equal bases, bases of 31 characters
\* and bases that themselves end in _2.
C24_SheetNamesDistinct ==
    /\ Len(namesCall.result) = Len(namesCall.fileNames)
    /\ \A s \in 1..Len(namesCall.result) : namesCall.result[s] \notin EarlierNames(s)
    /\ \A s \in 1..Len(namesCall.result), t \in 1..Len(namesCall.result) :
          namesCall.result[s] = namesCall.result[t] => s = t

\* a base of 31 characters that ends in _2 is taken as it is; the next file, whose
\* base is cut to the same 31 characters with _2, moves on to _3
C24_Witness ==
    /\ Len(namesCall.result) = 3
    /\ sanitizeSheetName(namesCall.fileNames[1])
          = Slice(LongName, SheetNameLimit - 2) \o <<"_", "2">>
    /\ sanitizeSheetName(namesCall.fileNames[2]) = LongName
    /\ sanitizeSheetName(namesCall.fileNames[3]) = LongName
    /\ namesCall.result[1] = Slice(LongName, SheetNameLimit - 2) \o <<"_", "2">>
    /\ namesCall.result[2] = LongName
    /\ namesCall.result[3] = Slice(LongName, SheetNameLimit - 2) \o <<"_", "3">>

----------------------------------------------------------------------------
(* The rank update page: processRankUpdate (src/updateExcel.js:1-101).     *)
(*                                                                         *)
(* A sheet is the array of rows that sheet_to_json returns with header: 1. *)
(* A row is a sequence of cells and a cell is the value the library gives  *)
(* for it: a string, a number, a boolean, or undefined for a hole and for  *)
(* a cell beyond the end of the row.  The characters of the two column     *)
(* titles compared at lines 29-30 are named by their code points.          *)

BooleanValue(b) == [type |-> "boolean", bool |-> b]

Undefined == [type |-> "undefined"]

\* a * 5^n
RECURSIVE MulPow5(_, _)
MulPow5(a, n) ==
    IF n = 0 \/ a = <<>> THEN a
    ELSE IF n >= 6 THEN MulPow5(MulSmall(a, 15625), n - 6)
    ELSE MulPow5(MulSmall(a, 5), n - 1)

\* the decimal digits of |x| for x finite and not 0, all of them: m * 2^e is
\* the integer m * 5^(-e) over 10^(-e) when e < 0
ExactDigits(x) ==
    DecimalDigitsOf(IF x.e >= 0 THEN ShiftLeft(x.m, x.e) ELSE MulPow5(x.m, -x.e))

\* whether the decimal k * 10^x10 is read as the Number x
ReadsBack(x, k, x10) == DecimalToNumber(x.neg, k, x10) = x

\* the digits of ds behind the first n against a half of the n-th place:
\* 1 above, 0 equal, -1 below
TailAgainstHalf(ds, n) ==
    IF DigitVal(ds[n + 1]) > 5 THEN 1
    ELSE IF DigitVal(ds[n + 1]) < 5 THEN -1
    ELSE IF \E i \in (n + 2)..Len(ds) : ds[i] # "0" THEN 1
    ELSE 0

\* of lo and lo + 1, both read as x, the one nearer to x, the even one half way
NearerOf(lo, tail) ==
    IF tail > 0 \/ (tail = 0 /\ IsOdd(lo)) THEN AddN(lo, <<1>>) ELSE lo

\* the decimal of n digits that is read as x, of the two next to x (lo below,
\* hi = lo + 1 above): <<>> when neither is
ChosenOf(x, ds, n, x10, lo, hi) ==
    IF ReadsBack(x, lo, x10)
    THEN (IF ReadsBack(x, hi, x10) THEN NearerOf(lo, TailAgainstHalf(ds, n)) ELSE lo)
    ELSE IF ReadsBack(x, hi, x10) THEN hi
    ELSE <<>>

ChosenBelow(x, ds, n, x10, lo) == ChosenOf(x, ds, n, x10, lo, AddN(lo, <<1>>))

\* the decimal of n digits that is read as x, ds being the exact digits of |x|
\* and |x| = 0.ds * 10^p: the first n digits of ds or the decimal after it
ChosenAt(x, ds, p, n) ==
    IF n >= Len(ds) THEN NatOfDigits(ds, <<>>)
    ELSE ChosenBelow(x, ds, n, p - n, NatOfDigits(SubSeq(ds, 1, n), <<>>))

\* the least number of digits with which a decimal is read as x
LeastDigits(x, ds, p) ==
    CHOOSE n \in 1..Len(ds) :
        /\ ChosenAt(x, ds, p, n) # <<>>
        /\ \A j \in 1..(n - 1) : ChosenAt(x, ds, p, j) = <<>>

\* digits kd of a decimal chosen with n digits, the point behind digit p of
\* them: 99...9 + 1 is the digit 1 with the point one place further
WithPoint(kd, n, p) ==
    IF Len(kd) > n THEN [digits |-> <<"1">>, point |-> p + 1]
    ELSE [digits |-> kd, point |-> p]

\* Number::toString, steps 5-6: the digits of the shortest decimal that is
\* read as x, and its point
ShortestOf(x, ds, p, n) == WithPoint(DecimalDigitsOf(ChosenAt(x, ds, p, n)), n, p)

ShortestWith(x, ds, p) == ShortestOf(x, ds, p, LeastDigits(x, ds, p))

ShortestAt(x, ds) ==
    ShortestWith(x, ds, IF x.e >= 0 THEN Len(ds) ELSE Len(ds) + x.e)

\* the exponent part of the scientific notation: e+21, e-7
ExponentText(e) ==
    <<"e", IF e < 0 THEN "-" ELSE "+">> \o DecimalDigitsOf(NatOf(IF e < 0 THEN -e ELSE e))

\* Number::toString, steps 7-12: the digits with the point behind digit p
Notation(digits, p) ==
    IF Len(digits) <= p /\ p <= 21
    THEN digits \o [i \in 1..(p - Len(digits)) |-> "0"]
    ELSE IF 0 < p /\ p <= 21
    THEN SubSeq(digits, 1, p) \o <<".">> \o SubSeq(digits, p + 1, Len(digits))
    ELSE IF -6 < p /\ p <= 0
    THEN <<"0", ".">> \o [i \in 1..(-p) |-> "0"] \o digits
    ELSE <<digits[1]>>
         \o (IF Len(digits) = 1 THEN <<>> ELSE <<".">> \o SubSeq(digits, 2, Len(digits)))
         \o ExponentText(p - 1)

NotationOf(shortest) == Notation(shortest.digits, shortest.point)

\* Number.prototype.toString()
NumberToString(x) ==
    IF x.kind = "nan" THEN <<"N", "a", "N">>
    ELSE IF x.kind = "inf" THEN (IF x.neg THEN <<"-">> ELSE <<>>) \o InfinityText
    ELSE IF x.m = <<>> THEN <<"0">>
    ELSE (IF x.neg THEN <<"-">> ELSE <<>>) \o NotationOf(ShortestAt(x, ExactDigits(x)))

\* updateExcel.js:25, 55  cell || "": the values that count as false
Falsy(v) ==
    \/ v.type = "undefined"
    \/ v.type = "boolean" /\ ~v.bool
    \/ v.type = "string" /\ v.str = <<>>
    \/ v.type = "number" /\ (v.num.kind = "nan" \/ IsZero(v.num))

\* updateExcel.js:25, 55, 81  toString() of a value, String(v) of undefined
ToStringOf(v) ==
    IF v.type = "string" THEN v.str
    ELSE IF v.type = "number" THEN NumberToString(v.num)
    ELSE IF v.type = "boolean"
    THEN (IF v.bool THEN <<"t", "r", "u", "e">> ELSE <<"f", "a", "l", "s", "e">>)
    ELSE <<"u", "n", "d", "e", "f", "i", "n", "e", "d">>

\* updateExcel.js:25, 55  (cell || "").toString()
CellText(cell) == IF Falsy(cell) THEN <<>> ELSE ToStringOf(cell)

\* updateExcel.js:29  the title of the name column (two characters)
NameTitle == <<"U+59D3", "U+540D">>

\* updateExcel.js:30  the title of the rating column (three characters)
RankTitle == <<"U+7B49", "U+7EA7", "U+5206">>

\* updateExcel.js:25  .replace(/\s/g, "")
RemoveSpaces(s) == SelectSeq(s, LAMBDA c : ~IsSpace(c))

\* updateExcel.js:25  the header cells, normalised; map leaves a hole a hole,
\* which equals no title at lines 29-30 and is joined as no text at line 33
HeaderOf(headerRow) ==
    [i \in 1..Len(headerRow) |-> Trim(RemoveSpaces(CellText(headerRow[i])))]

\* Array.prototype.findIndex for an equality test, 1-based: 0 stands for -1
FindIndex(header, title) ==
    IF \E i \in 1..Len(header) : header[i] = title
    THEN CHOOSE i \in 1..Len(header) :
            header[i] = title /\ \A j \in 1..(i - 1) : header[j] # title
    ELSE 0

\* updateExcel.js:55, 81  row[index] (index is 1-based here, 0 stands for -1):
\* undefined outside the row
Cell(row, index) ==
    IF 1 <= index /\ index <= Len(row) THEN row[index] ELSE Undefined

\* updateExcel.js:58  row[index] = value, value being a string; a row shorter
\* than index grows, with holes between its end and the cell
SetCell(row, index, value) ==
    [j \in 1..Max(Len(row), index) |->
        IF j = index THEN StringValue(value) ELSE Cell(row, j)]

\* updateExcel.js:39  e.target.result.split("\n").filter(Boolean)
FeedLines(text) == SelectSeq(Split(text, "\n"), LAMBDA l : Len(l) > 0)

\* the key whose assignment on an object literal sets the prototype instead of
\* a property; the setter ignores a value that is a string
ProtoKey == <<"_", "_", "p", "r", "o", "t", "o", "_", "_">>

\* updateExcel.js:44  updates[name] = newRank on the object of line 41: a new key
\* is added after the others, a known key keeps its place
SetUpdate(updates, name, newRank) ==
    IF name = ProtoKey THEN updates
    ELSE IF \E i \in 1..Len(updates) : updates[i].name = name
    THEN [i \in 1..Len(updates) |->
            IF updates[i].name = name
            THEN [name |-> name, newRank |-> newRank]
            ELSE updates[i]]
    ELSE Append(updates, [name |-> name, newRank |-> newRank])

\* updateExcel.js:43-44  one line, whose fields are line.trim().split(","):
\* with fewer than three fields newRank is undefined and newRank.trim() throws
LineStep(updates, fields) ==
    IF Len(fields) < 3
    THEN [threw |-> TRUE, updates |-> updates]
    ELSE [threw |-> FALSE,
          updates |-> SetUpdate(updates, Trim(fields[1]), Trim(fields[3]))]

\* updateExcel.js:42-45  lines.forEach from line i on, until a line throws
RECURSIVE LinesLoop(_, _, _)
LinesLoop(lines, i, acc) ==
    IF i > Len(lines) \/ acc.threw THEN acc
    ELSE LinesLoop(lines, i + 1, LineStep(acc.updates, Split(Trim(lines[i]), ",")))

\* updateExcel.js:41-45
UpdatesOf(text) == LinesLoop(FeedLines(text), 1, [threw |-> FALSE, updates |-> <<>>])

\* a key that is an array index: a canonical numeric string (below 2^32 - 1,
\* which the bounded names always are)
IsArrayIndex(name) ==
    /\ Len(name) > 0
    /\ \A i \in 1..Len(name) : IsDigit(name[i])
    /\ (Len(name) = 1 \/ name[1] # "0")

RECURSIVE AscendingKeys(_)
AscendingKeys(es) ==
    IF es = {} THEN <<>>
    ELSE LET m == CHOOSE e \in es :
                    \A f \in es : DigitsValue(e.name, 0) <= DigitsValue(f.name, 0)
         IN  <<m>> \o AscendingKeys(es \ {m})

\* updateExcel.js:50  Object.entries(updates): the array-index keys in ascending
\* order, then the other keys in the order of their creation
Entries(updates) ==
    AscendingKeys({ updates[i] : i \in { j \in 1..Len(updates) : IsArrayIndex(updates[j].name) } })
      \o SelectSeq(updates, LAMBDA e : ~IsArrayIndex(e.name))

\* updateExcel.js:53-63  position of the first row from i on whose trimmed name
\* is name, 0 when the loop ends without a match (rows 1 and 2 are sheet[0], sheet[1])
RECURSIVE FirstRow(_, _, _, _)
FirstRow(sheet, nameIndex, name, i) ==
    IF i > Len(sheet) THEN 0
    ELSE IF Trim(CellText(Cell(sheet[i], nameIndex))) = name THEN i
    ELSE FirstRow(sheet, nameIndex, name, i + 1)

\* updateExcel.js:51-65  one entry, i being the position of its first row
EntryStep(acc, entry, rankIndex, i) ==
    IF i > 0
    THEN [sheet |-> [acc.sheet EXCEPT ![i] = SetCell(@, rankIndex, entry.newRank)],
          successList |-> Append(acc.successList, entry.name),
          failList |-> acc.failList]
    ELSE [sheet |-> acc.sheet,
          successList |-> acc.successList,
          failList |-> Append(acc.failList, entry.name)]

\* updateExcel.js:47-66  the loop over the entries, from entry e on
RECURSIVE EntriesLoop(_, _, _, _, _)
EntriesLoop(entries, e, nameIndex, rankIndex, acc) ==
    IF e > Len(entries) THEN acc
    ELSE EntriesLoop(entries, e + 1, nameIndex, rankIndex,
            EntryStep(acc, entries[e], rankIndex,
                      FirstRow(acc.sheet, nameIndex, entries[e].name, 3)))

\* updateExcel.js:77  the rating column found again on the header row: the
\* first h with h && h.toString().replace(/\s/g, "").trim() equal to the
\* title, which a false h never is
RankIndexInHeader(headerRow) == FindIndex(HeaderOf(headerRow), RankTitle)

\* updateExcel.js:81-82  rank || 0
OrZero(rank) == IF rank.kind = "nan" THEN Zero ELSE rank

\* updateExcel.js:81-82  parseFloat(row[index]) || 0: parseFloat reads the
\* string of its argument
RankKey(row, index) == OrZero(ParseFloat(ToStringOf(Cell(row, index))))

\* updateExcel.js:83  rankB - rankA is not above 0 (NaN, of two infinities,
\* compares as 0): the row of rankA does not go behind the row of rankB
NotBelow(rankA, rankB) ==
    LET d == NumberSub(rankB, rankA)
    IN  d.kind = "nan" \/ (d.kind = "num" /\ IsZero(d)) \/ d.neg

\* a row put behind the rows of a descending list that are not below it
InsertRow(sorted, row, index) ==
    LET k == Cardinality({ i \in 1..Len(sorted) :
                             NotBelow(RankKey(sorted[i], index), RankKey(row, index)) })
    IN  SubSeq(sorted, 1, k) \o <<row>> \o SubSeq(sorted, k + 1, Len(sorted))

\* updateExcel.js:80-84  [...dataRows].sort((a, b) => rankB - rankA): descending,
\* rows of equal rating in their former order (Array.prototype.sort is stable)
RECURSIVE SortRows(_, _)
SortRows(rows, index) ==
    IF Len(rows) = 0 THEN <<>>
    ELSE InsertRow(SortRows(SubSeq(rows, 1, Len(rows) - 1), index), rows[Len(rows)], index)

\* updateExcel.js:72-87
FinalSheetData(sheet) ==
    <<sheet[1], sheet[2]>> \o SortRows(SubSeq(sheet, 3, Len(sheet)), RankIndexInHeader(sheet[2]))

----------------------------------------------------------------------------
(* One run of processRankUpdate: the click, then the load of the workbook, *)
(* then the load of the text file (the second read starts in the handler   *)
(* of the first).  After XLSX.writeFile at line 91 the handler appends the *)
(* sheet a second time under the same name (line 93), which changes        *)
(* nothing that the page shows or that the written file holds.             *)

MaxRows == 2

NoExcel == [present |-> FALSE, sheet |-> <<>>]

NoText == [present |-> FALSE, text |-> <<>>]

TitleRow == << StringValue(<<"T">>) >>

\* number, name, rating; the rating title holds a space
HeaderRow ==
    << StringValue(<<"N", "o">>), StringValue(NameTitle),
       StringValue(<<"U+7B49", "U+7EA7", " ", "U+5206">>) >>

\* a header row without the rating column: an empty cell, the name title, 0
\* and false
HeaderRowNoRank ==
    << Undefined, StringValue(NameTitle), NumberValue(NumberOf(0)), BooleanValue(FALSE) >>

\* A 1500; B with the rating as text; a second row of A, its name behind a
\* space; a row without name and rating; a row whose name cell is the number
\* 0; a row whose name cell is the number 7, rated 1450.5
DataRows ==
    { << NumberValue(NumberOf(1)), StringValue(<<"A">>), NumberValue(NumberOf(1500)) >>,
      << NumberValue(NumberOf(2)), StringValue(<<"B">>), StringValue(<<"1", "6", "0", "0">>) >>,
      << NumberValue(NumberOf(3)), StringValue(<<" ", "A">>), NumberValue(NumberOf(1400)) >>,
      << NumberValue(NumberOf(4)) >>,
      << NumberValue(NumberOf(5)), NumberValue(NumberOf(0)), NumberValue(NumberOf(1500)) >>,
      << NumberValue(NumberOf(6)), NumberValue(NumberOf(7)),
         NumberValue(DecimalToNumber(FALSE, NatOf(14505), -1)) >> }

ExcelInputs ==
    { NoExcel,
      [present |-> TRUE, sheet |-> <<TitleRow>>],
      [present |-> TRUE, sheet |-> <<TitleRow, HeaderRowNoRank>>] }
    \cup { [present |-> TRUE, sheet |-> <<TitleRow, HeaderRow>> \o rows] :
             rows \in UNION { [1..n -> DataRows] : n \in 0..MaxRows } }

\* "A,1500,1510"; "A ,1400, 1700"; "B,1600,1390"; "C,1200,1250\r"; "7,1000,1010";
\* "__proto__,1500,1510"; "\r", the empty line of a text with \r\n line ends;
\* "0,1500,1520"; ",1500,1530", a line without a name
FeedLineInputs ==
    { <<"A", ",", "1", "5", "0", "0", ",", "1", "5", "1", "0">>,
      <<"A", " ", ",", "1", "4", "0", "0", ",", " ", "1", "7", "0", "0">>,
      <<"B", ",", "1", "6", "0", "0", ",", "1", "3", "9", "0">>,
      <<"C", ",", "1", "2", "0", "0", ",", "1", "2", "5", "0", "\r">>,
      <<"7", ",", "1", "0", "0", "0", ",", "1", "0", "1", "0">>,
      ProtoKey \o <<",", "1", "5", "0", "0", ",", "1", "5", "1", "0">>,
      <<"\r">>,
      <<"0", ",", "1", "5", "0", "0", ",", "1", "5", "2", "0">>,
      <<",", "1", "5", "0", "0", ",", "1", "5", "3", "0">> }

FeedInputs ==
    { NoText }
    \cup { [present |-> TRUE, text |-> Join(lines, <<"\n">>)] :
             lines \in UNION { [1..n -> FeedLineInputs] : n \in 0..MaxLines } }

\* updateExcel.js:1-10, 100  the click on the button
ProcessRankUpdate(excelInput, textInput) ==
    /\ IF ~excelInput.present \/ ~textInput.present
       THEN /\ alertMsg' = "Please upload both Excel and Rank Update text files."
            /\ rankUpdate' = [rankUpdate EXCEPT !.phase = "alerted"]
       ELSE /\ alertMsg' = ""
            /\ rankUpdate' = [rankUpdate EXCEPT !.phase = "excel",
                                                !.excelInput = excelInput,
                                                !.textInput = textInput]
    /\ UNCHANGED <<groups, roundCount, fullMark, resetRankImportUI, calculated, sheets,
                   sheetNames, updateLines, locals, imports,
                   scoreCall, tokenCall, rowsCall, groupCall, namesCall>>

\* updateExcel.js:11-36, 97  reader.onload with the header found: the text is read next
HeaderFound(sheet, header) ==
    /\ rankUpdate' = [rankUpdate EXCEPT !.phase = "text", !.sheet = sheet,
                                        !.header = header,
                                        !.nameIndex = FindIndex(header, NameTitle),
                                        !.rankIndex = FindIndex(header, RankTitle)]
    /\ UNCHANGED alertMsg

\* updateExcel.js:24-35  the header of the second row, with or without the two titles
HeaderRead(sheet, header) ==
    IF FindIndex(header, NameTitle) = 0 \/ FindIndex(header, RankTitle) = 0
    THEN /\ alertMsg' = "columns not found in the second row."
         /\ rankUpdate' = [rankUpdate EXCEPT !.phase = "alerted", !.sheet = sheet,
                                             !.header = header]
    ELSE HeaderFound(sheet, header)

\* updateExcel.js:11-35  reader.onload; the alert of line 33 starts with a sign
\* and the two titles and ends with the detected headers, which are the header
\* of the run joined by " | "
ExcelLoaded ==
    /\ rankUpdate.phase = "excel"
    /\ \E sheet \in {rankUpdate.excelInput.sheet} :
          IF Len(sheet) < 2
          THEN /\ alertMsg' = "The Excel file doesn't contain enough data."
               /\ rankUpdate' = [rankUpdate EXCEPT !.phase = "alerted", !.sheet = sheet]
          ELSE HeaderRead(sheet, HeaderOf(sheet[2]))
    /\ UNCHANGED <<groups, roundCount, fullMark, resetRankImportUI, calculated, sheets,
                   sheetNames, updateLines, locals, imports,
                   scoreCall, tokenCall, rowsCall, groupCall, namesCall>>

\* updateExcel.js:47-91  what the handler leaves once every line has been read
Updated(out) ==
    rankUpdate' = [rankUpdate EXCEPT !.phase = "done",
                                     !.sheet = out.sheet,
                                     !.successList = out.successList,
                                     !.failList = out.failList,
                                     !.finalSheetData = FinalSheetData(out.sheet),
                                     !.written = TRUE]

\* updateExcel.js:38-95  textReader.onload; an exception at line 44 ends the
\* handler before anything is shown or written
TextLoaded ==
    /\ rankUpdate.phase = "text"
    /\ \E parsed \in {UpdatesOf(rankUpdate.textInput.text)} :
          IF parsed.threw
          THEN rankUpdate' = [rankUpdate EXCEPT !.phase = "threw"]
          ELSE \E out \in {EntriesLoop(Entries(parsed.updates), 1,
                                rankUpdate.nameIndex, rankUpdate.rankIndex,
                                [sheet |-> rankUpdate.sheet,
                                 successList |-> <<>>, failList |-> <<>>])} :
                  Updated(out)
    /\ UNCHANGED <<groups, roundCount, fullMark, resetRankImportUI, calculated, sheets,
                   sheetNames, updateLines, locals, alertMsg, imports,
                   scoreCall, tokenCall, rowsCall, groupCall, namesCall>>

ClickUpdate ==
    /\ rankUpdate.phase = "idle"
    /\ \E excelInput \in ExcelInputs : \E textInput \in FeedInputs :
          ProcessRankUpdate(excelInput, textInput)

NextUpdate == ClickUpdate \/ ExcelLoaded \/ TextLoaded

SpecUpdate == Init /\ [][NextUpdate]_vars

----------------------------------------------------------------------------
(* The lists and the sheet that a run of processRankUpdate leaves, checked *)
(* under SpecUpdate.                                                       *)

\* the lines of a text that hold something else than white space
TextLines(text) == SelectSeq(Split(text, "\n"), LAMBDA l : Len(Trim(l)) > 0)

\* the name a line of the feed starts with
LineName(line) == Trim(Split(Trim(line), ",")[1])

\* the new rating a line of the feed ends with
LineRank(line) ==
    IF Len(Split(Trim(line), ",")) >= 3 THEN Trim(Split(Trim(line), ",")[3]) ELSE <<>>

\* the distinct names of a feed
FeedNames(text) == { LineName(l) : l \in Range(TextLines(text)) }

\* the new rating of a name: that of the last line of the name
LastRankOf(text, name) ==
    LET lines == TextLines(text)
        last == CHOOSE i \in 1..Len(lines) :
                    /\ LineName(lines[i]) = name
                    /\ \A j \in (i + 1)..Len(lines) : LineName(lines[j]) # name
    IN  LineRank(lines[last])

\* the name a row shows: the text of its name cell, trimmed, none for a cell
\* that is not there
NameShown(row, nameIndex) ==
    IF Cell(row, nameIndex).type = "undefined" THEN <<>>
    ELSE Trim(ToStringOf(Cell(row, nameIndex)))

\* the data rows of a sheet (positions from 3 on) whose trimmed name is name
RowsNamed(sheet, nameIndex, name) ==
    { i \in 3..Len(sheet) : NameShown(sheet[i], nameIndex) = name }

\* row i of the sheet as the claim leaves it: the rating replaced when the row is
\* the first row of a name of the feed, nothing else touched
RowAfterUpdate(sheet, text, nameIndex, rankIndex, i) ==
    LET hits == { n \in FeedNames(text) :
                    /\ i \in RowsNamed(sheet, nameIndex, n)
                    /\ \A j \in RowsNamed(sheet, nameIndex, n) : i <= j }
    IN  IF hits = {} THEN sheet[i]
        ELSE SetCell(sheet[i], rankIndex, LastRankOf(text, CHOOSE n \in hits : TRUE))

\* number of positions from 3 on at which a sheet holds the row
Copies(sheet, row) == Cardinality({ i \in 3..Len(sheet) : sheet[i] = row })

\* C25: once the text of the feed has been read, every distinct name of the feed
\* is in exactly one of successList and failList, in successList exactly when a
\* data row has that trimmed name; the sheet written holds the title row and the
\* header row first and second, then the data rows in descending order of their
\* rating, which are the rows read with nothing changed but the rating of the
\* first row of each matched name, set to the new rating of the feed.
C25_EveryNameInOneListRowsKept ==
    rankUpdate.phase \in {"done", "threw"} =>
        LET sheet == rankUpdate.excelInput.sheet
            text == rankUpdate.textInput.text
            ni == rankUpdate.nameIndex
            ri == rankUpdate.rankIndex
            final == rankUpdate.finalSheetData
            after == [i \in 1..Len(sheet) |-> RowAfterUpdate(sheet, text, ni, ri, i)]
        IN  /\ \A n \in FeedNames(text) :
                  /\ Cardinality({ i \in 1..Len(rankUpdate.successList) :
                                     rankUpdate.successList[i] = n })
                       + Cardinality({ i \in 1..Len(rankUpdate.failList) :
                                         rankUpdate.failList[i] = n }) = 1
                  /\ n \in Range(rankUpdate.successList)
                       <=> RowsNamed(sheet, ni, n) # {}
            /\ Range(rankUpdate.successList) \cup Range(rankUpdate.failList)
                 \subseteq FeedNames(text)
            /\ rankUpdate.written
            /\ Len(final) = Len(sheet)
            /\ final[1] = sheet[1]
            /\ final[2] = sheet[2]
            /\ \A i \in 3..Len(sheet) :
                  /\ Copies(final, final[i]) = Copies(after, final[i])
                  /\ Copies(final, after[i]) = Copies(after, after[i])
            /\ \A i \in 3..Len(final), j \in 3..Len(final) :
                  i < j => NotBelow(RankKey(final[i], ri), RankKey(final[j], ri))

====
